---- MODULE Spec2Model ----
(***************************************************************************)
(* kssmath: Brent's bracketed minimum search (minimum.cpp / minimum.hpp)   *)
(* and the geospatial point (geospatial.hpp / geospatial.cpp).             *)
(*                                                                         *)
(* FLOAT values of the minimizer are modelled on a unit grid: every value  *)
(* is an integer, sums, differences and products are exact, and the two    *)
(* operations of the algorithm that leave the grid (cgold*e and p/q) are   *)
(* rounded to the nearest grid value, as a floating-point unit rounds to   *)
(* the nearest representable value.  The sign bit of d is kept beside its  *)
(* value, because std::copysign reads it also when d is zero.              *)
(***************************************************************************)
EXTENDS Integers, Sequences, FiniteSets, TLC

VARIABLES
    pc,         \* position of the call: "call", "loop", or how it ended
    call,       \* "min": minimum_value, "max": maximum_value
    ax, bx, cx, \* the bracketing triple passed by the caller
    tol,        \* tol1
    fn,         \* the caller's objective
    supplied,   \* TRUE iff the caller passes its known f(bx) as fbx
    st,         \* the locals a, b, v, w, x, e, d, fx, fv, fw of _minimum_value
    i,          \* the loop counter of _minimum_value
    evalLog,    \* the calls of the objective, in order: the point u, the iteration
                \* (0: before the loop), and whether the call raised a failure
    xmin,       \* the caller's output location
    result      \* the value returned to the caller

VARIABLES
    gp,         \* the geos::Point under test: <<values[0], values[1]>> = <<longitude, latitude>>
    gop,        \* the last public operation applied to it
    garg,       \* the arguments of that operation
    gout,       \* how that operation ended
    gsrc        \* the point whose text a text constructor was given

VARIABLES
    sop,        \* the last great-circle function called
    sarg,       \* its arguments
    sres        \* what it gave back

VARIABLES
    lop,        \* the intersection function called: "intersection_as" computes in Result
    larg,       \* the two lines and the Number type of their coordinates
    lres        \* what the call gave back

VARIABLES
    dop,        \* the vector function called
    darg,       \* the element type T and the two vectors
    dres        \* the Result returned

VARIABLES
    npc,        \* where the call of _gcd is
    narg,       \* the arguments u, v of gcd and the build (NDEBUG or not)
    nst,        \* the locals of _gcd: u, v, k, t, isNegative
    nres        \* the value returned

VARIABLES
    pop,        \* the comparison of two geom::Point made
    parg,       \* the revision of point.hpp and the two points
    pres        \* what operator== and operator!= gave

VARIABLES
    vop,        \* the constructor of la::Vector called
    varg,       \* the size of the valarray, N and the slice
    vres        \* how the construction ended, and the positions the indices map to

VARIABLES
    wop,        \* "walk" once the loop of pathIntermediatePoint has run on rounded doubles
    warg,       \* the distances of the segments of the path and the fraction
    wres        \* how the loop ended

VARIABLES
    segop,      \* the function of a single line called: length, midpoint or distance
    segarg,     \* the line, the point and the Result type computed in
    segres      \* what the call gave back

brentVars == <<pc, call, ax, bx, cx, tol, fn, supplied, st, i, evalLog, xmin, result>>

geoVars == <<gp, gop, garg, gout, gsrc>>

sphVars == <<sop, sarg, sres>>

lineVars == <<lop, larg, lres>>

dotVars == <<dop, darg, dres>>

numVars == <<npc, narg, nst, nres>>

ptVars == <<pop, parg, pres>>

vecVars == <<vop, varg, vres>>

walkVars == <<wop, warg, wres>>

segVars == <<segop, segarg, segres>>

vars == <<brentVars, geoVars, sphVars, lineVars, dotVars, numVars, ptVars, vecVars, walkVars, segVars>>

\* what the operations of one part of the library leave alone
notBrent == <<geoVars, sphVars, lineVars, dotVars, numVars, ptVars, vecVars, walkVars, segVars>>
notGeo == <<brentVars, sphVars, lineVars, dotVars, numVars, ptVars, vecVars, walkVars, segVars>>
notSph == <<brentVars, geoVars, lineVars, dotVars, numVars, ptVars, vecVars, walkVars, segVars>>
notLine == <<brentVars, geoVars, sphVars, dotVars, numVars, ptVars, vecVars, walkVars, segVars>>
notDot == <<brentVars, geoVars, sphVars, lineVars, numVars, ptVars, vecVars, walkVars, segVars>>
notNum == <<brentVars, geoVars, sphVars, lineVars, dotVars, ptVars, vecVars, walkVars, segVars>>
notPt == <<brentVars, geoVars, sphVars, lineVars, dotVars, numVars, vecVars, walkVars, segVars>>
notVec == <<brentVars, geoVars, sphVars, lineVars, dotVars, numVars, ptVars, walkVars, segVars>>
notWalk == <<brentVars, geoVars, sphVars, lineVars, dotVars, numVars, ptVars, vecVars, segVars>>
notSeg == <<brentVars, geoVars, sphVars, lineVars, dotVars, numVars, ptVars, vecVars, walkVars>>

----------------------------------------------------------------------------
(* Bounds of the model *)

MaxCoord == 3
CoordStep == 8
MaxTol == 4

(* Program constants *)

itmax == 100
CGoldNum == 381966
CGoldDen == 1000000
FloatMax == 100000

\* xmin and result hold <<>> until written, then <<value>>
Unwritten == <<>>
NoResult == <<>>

----------------------------------------------------------------------------
(* Arithmetic helpers *)

Abs(n) == IF n < 0 THEN -n ELSE n

Xor(p, q) == (p /\ ~q) \/ (~p /\ q)

\* n/d rounded to the nearest grid value (d > 0), halves away from zero
RoundDiv(n, d) ==
    IF n >= 0 THEN (2 * n + d) \div (2 * d) ELSE -((2 * (-n) + d) \div (2 * d))

\* std::copysign(mag, y) where neg is the sign bit of y
CopySign(mag, neg) == IF neg THEN -Abs(mag) ELSE Abs(mag)

----------------------------------------------------------------------------
(* Objectives the caller may pass *)

Objectives ==
    { [kind |-> "vee",  m |-> 1,  l |-> 8, r |-> 1, neg |-> FALSE],
      [kind |-> "vee",  m |-> 13, l |-> 1, r |-> 8, neg |-> FALSE],
      [kind |-> "quad", m |-> 5,  l |-> 1, r |-> 1, neg |-> FALSE],
      [kind |-> "quad", m |-> 11, l |-> 1, r |-> 1, neg |-> TRUE],
      [kind |-> "flat", m |-> 3,  l |-> 1, r |-> 1, neg |-> FALSE],
      [kind |-> "wave", m |-> 7,  l |-> 3, r |-> 1, neg |-> FALSE],
      [kind |-> "wall", m |-> 6,  l |-> 1, r |-> 1, neg |-> FALSE] }

\* the value fn(x) of an objective that returns
F(f, x) ==
    LET base ==
          CASE f.kind = "vee"  -> IF x < f.m THEN f.l * (f.m - x) ELSE f.r * (x - f.m)
            [] f.kind = "quad" -> (x - f.m) * (x - f.m)
            [] f.kind = "flat" -> f.m
            [] f.kind = "wave" -> (f.l * x * x) % f.m
            [] f.kind = "wall" -> IF x >= f.m THEN FloatMax ELSE f.m - x
    IN  IF f.neg THEN -base ELSE base

\* the lambda of maximum_value: [&](Float x) { return -fn(x); }
NegFn(f) == [f EXCEPT !.neg = ~f.neg]

----------------------------------------------------------------------------
(* _minimum_value *)

BadBracket_strict(a, b, c) == a > b \/ b > c

\* line 177: the sanity check on the bracket
BadBracket(a, b, c) == a >= b \/ b >= c

NeedsEvaluation_always(fbxv) == TRUE

\* line 189: fbx == numeric_limits<FLOAT>::max() stands for "not provided"
NeedsEvaluation(fbxv) == fbxv = FloatMax

\* tol1 is counted in TolDen-ths of the step of the grid that a, b, x and u
\* live on, so that a positive tolerance below what FLOAT resolves next to x
\* (x + tol1 == x) is one of the tolerances
TolDen == 4

Tol2_quadruple(tol1) == 4 * tol1

\* line 193
Tol2(tol1) == 2 * tol1

Better_reversed(fu, fx) == fu >= fx

\* line 238
Better(fu, fx) == fu <= fx

LoopContinues_inclusive(n) == n <= itmax

\* line 197: i < itmax
LoopContinues(n) == n < itmax

\* the locals after lines 183-193, fx being fn(bx) or the supplied fbx
InitLocals(axv, bxv, cxv, fxv) ==
    [a |-> axv, b |-> cxv, v |-> bxv, w |-> bxv, x |-> bxv,
     e |-> 0, d |-> 0, dneg |-> FALSE,
     fx |-> fxv, fv |-> fxv, fw |-> fxv]

\* the convergence test: fabs(x-xm) <= tol2 - 0.5*(b-a), with xm = 0.5*(a+b)
Converged(s, tol1) ==
    TolDen * Abs(2 * s.x - (s.a + s.b)) <= 2 * Tol2(tol1) - TolDen * (s.b - s.a)

\* x >= xm
RightOfMiddle(s) == 2 * s.x >= s.a + s.b

\* the golden-section step: e = (x >= xm ? a-x : b-x); d = cgold*e
Golden(s) ==
    LET e1 == IF RightOfMiddle(s) THEN s.a - s.x ELSE s.b - s.x
    IN  [s EXCEPT !.e = e1,
                  !.d = RoundDiv(CGoldNum * e1, CGoldDen),
                  !.dneg = (e1 < 0)]

\* copysign(tol1, .) as a step on the grid: once added to x, a tolerance
\* below half a step of the grid leaves x where it is
TolStep(tol1, neg) == CopySign(RoundDiv(tol1, TolDen), neg)

\* the curve fit of lines 207-229
Fit(s, tol1) ==
    LET xw == s.x - s.w
        xv == s.x - s.v
        fxfv == s.fx - s.fv
        fxfw == s.fx - s.fw
        r == xw * fxfv
        rneg == Xor(xw < 0, fxfv < 0)
        q0 == xv * fxfw
        q0neg == Xor(xv < 0, fxfw < 0)
        t1 == xv * q0
        t1neg == Xor(xv < 0, q0neg)
        t2 == xw * r
        t2neg == Xor(xw < 0, rneg)
        p0 == t1 - t2
        p0neg == IF p0 # 0 THEN p0 < 0 ELSE (t1 = 0 /\ t2 = 0 /\ t1neg /\ ~t2neg)
        q1 == 2 * (q0 - r)
        p == IF q1 > 0 THEN -p0 ELSE p0
        pneg == IF q1 > 0 THEN ~p0neg ELSE p0neg
        q == Abs(q1)
    IN  IF \/ 2 * Abs(p) >= Abs(q * s.e)
           \/ p <= q * (s.a - s.x)
           \/ p >= q * (s.b - s.x)
        THEN Golden(s)
        ELSE LET d1 == RoundDiv(p, q)
                 u1 == s.x + d1
             IN  IF \/ TolDen * (u1 - s.a) < Tol2(tol1)
                    \/ TolDen * (s.b - u1) < Tol2(tol1)
                 THEN [s EXCEPT !.e = s.d,
                                !.d = TolStep(tol1, s.a + s.b - 2 * s.x < 0),
                                !.dneg = (s.a + s.b - 2 * s.x < 0)]
                 ELSE [s EXCEPT !.e = s.d, !.d = d1, !.dneg = pneg]

\* lines 207-233: choose the step
ChooseStep(s, tol1) ==
    IF TolDen * Abs(s.e) > tol1 THEN Fit(s, tol1) ELSE Golden(s)

Trial_doubled(s, tol1) == s.x + 2 * s.d

\* line 236: the trial point
Trial(s, tol1) ==
    IF TolDen * Abs(s.d) >= tol1 THEN s.x + s.d ELSE s.x + TolStep(tol1, s.dneg)

ReplacesW_always(s, fu) == TRUE

\* (fu <= fw) || (w == x): the worse trial becomes w, and w becomes v
ReplacesW(s, fu) == fu <= s.fw \/ s.w = s.x

\* lines 238-271: the bookkeeping once fu = fn(u) is known
Update(s, u, fu) ==
    IF Better(fu, s.fx)
    THEN [s EXCEPT !.a = IF u >= s.x THEN s.x ELSE s.a,
                   !.b = IF u >= s.x THEN s.b ELSE s.x,
                   !.v = s.w, !.fv = s.fw,
                   !.w = s.x, !.fw = s.fx,
                   !.x = u,   !.fx = fu]
    ELSE LET s1 == [s EXCEPT !.a = IF u < s.x THEN u ELSE s.a,
                             !.b = IF u < s.x THEN s.b ELSE u]
         IN  IF ReplacesW(s, fu)
             THEN [s1 EXCEPT !.v = s.w, !.fv = s.fw, !.w = u, !.fw = fu]
             ELSE IF fu <= s.fv \/ s.v = s.x \/ s.v = s.w
                  THEN [s1 EXCEPT !.v = u, !.fv = fu]
                  ELSE s1

\* lines 197-277 as a function: the loop from iteration n on, for an objective
\* that returns
RECURSIVE MinimumLoop(_, _, _, _)
MinimumLoop(s, n, f, tol1) ==
    IF ~LoopContinues(n) THEN [out |-> "no_convergence", xmin |-> 0, value |-> 0]
    ELSE IF Converged(s, tol1) THEN [out |-> "returned", xmin |-> s.x, value |-> s.fx]
    ELSE MinimumLoop(Update(ChooseStep(s, tol1),
                            Trial(ChooseStep(s, tol1), tol1),
                            F(f, Trial(ChooseStep(s, tol1), tol1))),
                     n + 1, f, tol1)

\* minimum_value(ax, bx, cx, xmin, fn, tol1, fbx) as a function
MinimumValue(axv, bxv, cxv, f, tol1, fbxv) ==
    IF BadBracket(axv, bxv, cxv) THEN [out |-> "invalid_argument", xmin |-> 0, value |-> 0]
    ELSE MinimumLoop(InitLocals(axv, bxv, cxv,
                                IF NeedsEvaluation(fbxv) THEN F(f, bxv) ELSE fbxv),
                     0, f, tol1)

----------------------------------------------------------------------------
(* geos::Point.  A double is a record: NaN, or a finite value counted in    *)
(* half degrees (so that 40.5 is a value and prints as "40.5" exactly).     *)
(* Text is a sequence of one-character strings.                             *)

LatLimit == 90
LngLimit == 180
npos == -1

NaN == [nan |-> TRUE, v |-> 0]

Dbl(n) == [nan |-> FALSE, v |-> n]

Deg(d) == Dbl(2 * d)

\* the comparisons of two doubles: each is false when an operand is NaN
Lt(x, y) == ~x.nan /\ ~y.nan /\ x.v < y.v
Gt(x, y) == ~x.nan /\ ~y.nan /\ x.v > y.v
Le(x, y) == ~x.nan /\ ~y.nan /\ x.v <= y.v
Ge(x, y) == ~x.nan /\ ~y.nan /\ x.v >= y.v

Longitude(p) == p[1]
Latitude(p) == p[2]

Origin == <<Deg(0), Deg(0)>>

\* isValid(const Point&)
isValid(p) ==
    /\ Ge(Latitude(p), Deg(-LatLimit)) /\ Le(Latitude(p), Deg(LatLimit))
    /\ Ge(Longitude(p), Deg(-LngLimit)) /\ Le(Longitude(p), Deg(LngLimit))

\* the guards of Point::latitude(double) and Point::longitude(double)
LatitudeRejected(lat) == Lt(lat, Deg(-LatLimit)) \/ Gt(lat, Deg(LatLimit))
LongitudeRejected(lng) == Lt(lng, Deg(-LngLimit)) \/ Gt(lng, Deg(LngLimit))

\* Point::latitude(double) and Point::longitude(double) on point p
SetLat(p, lat) ==
    IF LatitudeRejected(lat) THEN [out |-> "out_of_range", p |-> p]
    ELSE [out |-> "ok", p |-> <<p[1], lat>>]

SetLng(p, lng) ==
    IF LongitudeRejected(lng) THEN [out |-> "out_of_range", p |-> p]
    ELSE [out |-> "ok", p |-> <<lng, p[2]>>]

\* how a failed contract::postconditions check ends the constructor
PostconditionFailure == "contract_failure"

\* longitude(lng) after a call r that may have thrown
ThenSetLng(r, lng) == IF r.out # "ok" THEN r ELSE SetLng(r.p, lng)

\* contract::postconditions({ isValid(*this) }) after a body that may have thrown
Postchecked(r) ==
    IF r.out # "ok" THEN r
    ELSE IF ~isValid(r.p) THEN [out |-> PostconditionFailure, p |-> r.p]
    ELSE r

\* Point::Point(double lat, double lng)
PointOf(lat, lng) == Postchecked(ThenSetLng(SetLat(Origin, lat), lng))

(* Text *)

DigitChars == <<"0", "1", "2", "3", "4", "5", "6", "7", "8", "9">>

IsDigit(c) == \E k \in 1..10 : DigitChars[k] = c

DigitVal(c) == (CHOOSE k \in 1..10 : DigitChars[k] = c) - 1

IsSpace(c) == c = " "

\* the decimal digits of a natural number, most significant first
NatText(n) ==
    LET k == CHOOSE j \in 1..10 : n < 10 ^ j /\ (j = 1 \/ n >= 10 ^ (j - 1))
    IN  [j \in 1..k |-> DigitChars[((n \div 10 ^ (k - j)) % 10) + 1]]

\* operator<<(double) at precision max_digits10 + 2, for a finite value
Fmt(x) ==
    LET h == Abs(x.v)
    IN  (IF x.v < 0 THEN <<"-">> ELSE <<>>)
        \o NatText(h \div 2)
        \o (IF h % 2 = 1 THEN <<".", "5">> ELSE <<>>)

\* Point::operator string(): "(" latitude "," longitude ")"
ToText(p) == <<"(">> \o Fmt(Latitude(p)) \o <<",">> \o Fmt(Longitude(p)) \o <<")">>

\* Point::gis(): "POINT(" longitude " " latitude ")"
GisPrefix == <<"P", "O", "I", "N", "T", "(">>

ToGis(p) == GisPrefix \o Fmt(Longitude(p)) \o <<" ">> \o Fmt(Latitude(p)) \o <<")">>

\* s.find(c, from), positions counted from 0
Find(s, c, from) ==
    LET hits == { k \in (from + 1)..Len(s) : s[k] = c }
    IN  IF hits = {} THEN npos
        ELSE (CHOOSE k \in hits : \A j \in hits : k <= j) - 1

\* s.substr(pos, n), positions counted from 0 (pos <= size in every use)
Substr(s, pos, n) ==
    LET last == IF pos + n > Len(s) THEN Len(s) ELSE pos + n
    IN  SubSeq(s, pos + 1, last)

\* startsWith(str, prefix)
StartsWith(s, prefix) ==
    /\ Len(s) >= Len(prefix)
    /\ SubSeq(s, 1, Len(prefix)) = prefix

\* the first position at or after k (from 1) that holds no white space
SkipSpaces(s, k) ==
    CHOOSE j \in k..(Len(s) + 1) :
        /\ j = Len(s) + 1 \/ ~IsSpace(s[j])
        /\ \A h \in k..(j - 1) : IsSpace(s[h])

\* the first position at or after k (from 1) that holds no digit
SkipDigits(s, k) ==
    CHOOSE j \in k..(Len(s) + 1) :
        /\ j = Len(s) + 1 \/ ~IsDigit(s[j])
        /\ \A h \in k..(j - 1) : IsDigit(s[h])

\* the number the digits s[from..to] write
NatOf(s, from, to) ==
    LET val[j \in (from - 1)..to] ==
            IF j < from THEN 0 ELSE 10 * val[j - 1] + DigitVal(s[j])
    IN  IF to < from THEN 0 ELSE val[to]

\* std::stod(s): white space, an optional sign, then digits with an optional
\* fraction, or "nan"; what follows the number is not looked at.  No number:
\* std::invalid_argument.  The fraction is read to half a degree.
StodNumber(s, neg, k1, k2, k3) ==
    IF (k2 - k1) + (IF k3 > k2 THEN k3 - (k2 + 1) ELSE 0) > 0
    THEN [out |-> "ok",
          val |-> Dbl((IF neg THEN -1 ELSE 1)
                      * (2 * NatOf(s, k1, k2 - 1)
                         + (IF k3 > k2 + 1 /\ DigitVal(s[k2 + 1]) >= 5 THEN 1 ELSE 0)))]
    ELSE IF k1 + 2 <= Len(s) /\ SubSeq(s, k1, k1 + 2) = <<"n", "a", "n">>
    THEN [out |-> "ok", val |-> NaN]
    ELSE [out |-> "invalid_argument", val |-> NaN]

StodFraction(s, neg, k1, k2) ==
    StodNumber(s, neg, k1, k2,
               IF k2 <= Len(s) /\ s[k2] = "." THEN SkipDigits(s, k2 + 1) ELSE k2)

StodSigned(s, k0) ==
    IF k0 <= Len(s) /\ s[k0] \in {"-", "+"}
    THEN StodFraction(s, s[k0] = "-", k0 + 1, SkipDigits(s, k0 + 1))
    ELSE StodFraction(s, FALSE, k0, SkipDigits(s, k0))

StoD(s) == StodSigned(s, SkipSpaces(s, 1))

\* p.latitude(stod(latStr)) on point p
ParseLat(p, lat) ==
    IF lat.out # "ok" THEN [out |-> lat.out, p |-> p] ELSE SetLat(p, lat.val)

\* p.longitude(stod(lngStr)) after a call r that may have thrown
ThenParseLng(r, lngStr) ==
    IF r.out # "ok" THEN r
    ELSE IF StoD(lngStr).out # "ok" THEN [out |-> StoD(lngStr).out, p |-> r.p]
    ELSE SetLng(r.p, StoD(lngStr).val)

\* p.latitude(stod(latStr)); p.longitude(stod(lngStr));
ParseBoth(p, latStr, lngStr) == ThenParseLng(ParseLat(p, StoD(latStr)), lngStr)

CouldNotParse(p) == [out |-> "invalid_argument", p |-> p]

\* parseInternalStringFormat(Point&, const string&)
parseInternalStringFormat(p, s) ==
    LET len == Len(s)
        commaPos == Find(s, ",", 1)
    IN  IF len = 0 THEN CouldNotParse(p)
        ELSE IF s[1] # "(" \/ s[len] # ")" THEN CouldNotParse(p)
        ELSE IF commaPos = npos THEN CouldNotParse(p)
        ELSE ParseBoth(p, Substr(s, 1, commaPos - 1),
                          Substr(s, commaPos + 1, len - commaPos - 2))

parseGisStringFormat_swapped(p, s) ==
    LET len == Len(s)
        prefixLen == Len(GisPrefix)
        spacePos == Find(s, " ", prefixLen)
    IN  IF s[len] # ")" THEN CouldNotParse(p)
        ELSE IF spacePos = npos THEN CouldNotParse(p)
        ELSE ParseBoth(p, Substr(s, prefixLen, spacePos - prefixLen),
                          Substr(s, spacePos + 1, len - spacePos - 2))

\* parseGisStringFormat(Point&, const string&)
parseGisStringFormat(p, s) ==
    LET len == Len(s)
        prefixLen == Len(GisPrefix)
        spacePos == Find(s, " ", prefixLen)
    IN  IF s[len] # ")" THEN CouldNotParse(p)
        ELSE IF spacePos = npos THEN CouldNotParse(p)
        ELSE ParseBoth(p, Substr(s, spacePos + 1, len - spacePos - 2),
                          Substr(s, prefixLen, spacePos - prefixLen))

\* Point::Point(const std::string&)
PointOfText(s) ==
    IF Len(s) = 0 THEN CouldNotParse(Origin)
    ELSE Postchecked(IF StartsWith(s, GisPrefix)
                     THEN parseGisStringFormat(Origin, s)
                     ELSE parseInternalStringFormat(Origin, s))

(* The doubles and texts a caller passes in the model *)

GeoDoubles ==
    {NaN} \cup { Dbl(n) : n \in {-25, 0, 81} }
          \cup { Dbl(s * (2 * l + k)) : s \in {-1, 1}, l \in {LatLimit, LngLimit}, k \in 0..1 }

Chars(str) ==
    CASE str = "bad"    -> <<"i", "n", "v", "a", "l", "i", "d">>
      [] str = "latx"   -> <<"(", "x", "x", "x", ",", " ", "1", "0", "0", ")">>
      [] str = "lngx"   -> <<"(", "1", "0", ",", " ", "x", "x", "x", ")">>
      [] str = "gisx"   -> <<"P", "O", "I", "N", "T", "(", "x", "x", "x", " ", "1", "0", ")">>
      [] str = "gisy"   -> <<"P", "O", "I", "N", "T", "(", "1", "0", "0", " ", "x", "x", "x", ")">>
      [] str = "lat92"  -> <<"(", "9", "2", ",", " ", "1", "0", "0", ")">>
      [] str = "gis181" -> <<"P", "O", "I", "N", "T", "(", "-", "1", "8", "1", " ", "8", "0", ")">>
      [] str = "ok"     -> <<"(", "4", "0", ",", "1", "1", "0", ")">>
      [] str = "gisok"  -> <<"P", "O", "I", "N", "T", "(", "1", "1", "0", " ", "4", "0", ")">>
      [] str = "trail"  -> <<"(", "4", "0", "x", ",", "1", "1", "0", ")">>
      [] str = "gistr"  -> <<"P", "O", "I", "N", "T", "(", "1", "1", "0", " ", "4", "0", "x", ")">>
      [] str = "empty"  -> <<>>

GeoTexts == { Chars(n) : n \in {"bad", "latx", "lngx", "gisx", "gisy", "lat92",
                                "gis181", "ok", "gisok", "trail", "gistr", "empty"} }

NoArg == <<>>

GeoIdle ==
    /\ gp = Origin
    /\ gop = "none"
    /\ garg = NoArg
    /\ gout = "ok"
    /\ gsrc = Origin

\* Point(): both values are double()
GeoDefault ==
    /\ gp' = Origin
    /\ gop' = "default" /\ garg' = NoArg /\ gout' = "ok" /\ gsrc' = Origin
    /\ UNCHANGED notGeo

\* p = Point(lat, lng): p is assigned only if the constructor returns
GeoConstruct ==
    /\ \E lat \in GeoDoubles, lng \in GeoDoubles :
          LET r == PointOf(lat, lng)
          IN  /\ gp' = IF r.out = "ok" THEN r.p ELSE gp
              /\ gout' = r.out
    /\ gop' = "construct" /\ garg' = NoArg /\ gsrc' = Origin
    /\ UNCHANGED notGeo

\* p = Point(p): the defaulted copy constructor and assignment copy both values
GeoCopy ==
    /\ gp' = <<gp[1], gp[2]>>
    /\ gop' = "copy" /\ garg' = NoArg /\ gout' = "ok" /\ gsrc' = Origin
    /\ UNCHANGED notGeo

\* p.latitude(x)
GeoLatitude ==
    /\ \E x \in GeoDoubles :
          LET r == SetLat(gp, x)
          IN  gp' = r.p /\ gout' = r.out /\ garg' = <<x>>
    /\ gop' = "latitude" /\ gsrc' = Origin
    /\ UNCHANGED notGeo

\* p.longitude(x)
GeoLongitude ==
    /\ \E x \in GeoDoubles :
          LET r == SetLng(gp, x)
          IN  gp' = r.p /\ gout' = r.out /\ garg' = <<x>>
    /\ gop' = "longitude" /\ gsrc' = Origin
    /\ UNCHANGED notGeo

\* p[k] = x through geom::Point::operator[] (k = 0 or 1)
GeoIndexWrite ==
    /\ \E k \in 1..2, x \in GeoDoubles : gp' = [gp EXCEPT ![k] = x]
    /\ gop' = "index" /\ garg' = NoArg /\ gout' = "ok" /\ gsrc' = Origin
    /\ UNCHANGED notGeo

\* p.values() = {x, y} through geom::Point::values()
GeoValuesWrite ==
    /\ \E x \in GeoDoubles, y \in GeoDoubles : gp' = <<x, y>>
    /\ gop' = "values" /\ garg' = NoArg /\ gout' = "ok" /\ gsrc' = Origin
    /\ UNCHANGED notGeo

\* p = Point(text) for a text the caller wrote
GeoFromText ==
    /\ \E s \in GeoTexts :
          LET r == PointOfText(s)
          IN  /\ gp' = IF r.out = "ok" THEN r.p ELSE gp
              /\ gout' = r.out
              /\ garg' = s
    /\ gop' = "text" /\ gsrc' = Origin
    /\ UNCHANGED notGeo

\* p = Point(string(p)), p being valid as operator string() requires
GeoFromString ==
    /\ isValid(gp)
    /\ LET r == PointOfText(ToText(gp))
       IN  /\ gp' = IF r.out = "ok" THEN r.p ELSE gp
           /\ gout' = r.out
    /\ gop' = "from_string" /\ garg' = ToText(gp) /\ gsrc' = gp
    /\ UNCHANGED notGeo

\* p = Point(p.gis()), p being valid as gis() requires
GeoFromGis ==
    /\ isValid(gp)
    /\ LET r == PointOfText(ToGis(gp))
       IN  /\ gp' = IF r.out = "ok" THEN r.p ELSE gp
           /\ gout' = r.out
    /\ gop' = "from_gis" /\ garg' = ToGis(gp) /\ gsrc' = gp
    /\ UNCHANGED notGeo

GeoNext ==
    \/ GeoDefault
    \/ GeoConstruct
    \/ GeoCopy
    \/ GeoLatitude
    \/ GeoLongitude
    \/ GeoIndexWrite
    \/ GeoValuesWrite
    \/ GeoFromText
    \/ GeoFromString
    \/ GeoFromGis

----------------------------------------------------------------------------
(* Great-circle computations (geospatial.hpp / geospatial.cpp)             *)
(*                                                                         *)
(* Angles in radians are counted in eighths of a turn, so PI is 4; the     *)
(* values of sin, cos and their products are fixed-point numbers with      *)
(* Scale units to 1, rounded to the nearest unit.  A distance is counted   *)
(* in metres times PI/4, so that R * c is an integer.                      *)

MIN_DIAMETER_OF_THE_EARTH_IN_M == 6370000
PI == 4
Scale == 100

\* the smallest positive distance: numeric_limits<double>::epsilon()*2
TwoEpsilon == 1

\* how a failed contract::preconditions or contract::conditions check ends a call
ConditionFailure == "contract_failure"

\* toRadians(deg) = deg * PI / 180, deg counted in half degrees
toRadians(deg) == (deg.v * PI) \div (2 * 180)

\* toDegrees(rad) = rad * 180 / PI
toDegrees(rad) == Dbl((rad * 2 * 180) \div PI)

Sin45 == (707 * Scale) \div 1000

\* sin of k eighths of a turn
Sin(k) ==
    CASE k % 8 \in {0, 4} -> 0
      [] k % 8 \in {1, 3} -> Sin45
      [] k % 8 = 2        -> Scale
      [] k % 8 \in {5, 7} -> -Sin45
      [] k % 8 = 6        -> -Scale

Cos(k) == Sin(k + 2)

\* the product of two fixed-point values
Mul(p, q) == RoundDiv(p * q, Scale)

squared(d) == Mul(d, d)

\* sqrt of a fixed-point value
Sqrt(v) == CHOOSE r \in 0..(2 * Scale) : r * r <= v * Scale /\ v * Scale < (r + 1) * (r + 1)

\* atan2(y, x), to the nearest eighth of a turn (tan of a sixteenth is 0.414)
Atan2(y, x) ==
    LET oct == IF 1000 * Abs(y) < 414 * Abs(x) \/ y = 0 THEN 0
               ELSE IF 414 * Abs(y) > 1000 * Abs(x) THEN 2
               ELSE 1
        q == IF x >= 0 THEN oct ELSE 4 - oct
    IN  IF y < 0 THEN -q ELSE q

\* normalize_longitude(lon) = fmod(lon + 540, 360) - 180
normalize_longitude(lon) == Dbl(((lon.v + 2 * 540) % (2 * 360)) - 2 * 180)

\* what a call gives back: how it ended, a distance, a truth value, a point,
\* and the number of path points read and distances computed in it
Res(out, d, close, p, work) ==
    [out |-> out, d |-> d, close |-> close, p |-> p, work |-> work]

Failed(out, work) == Res(out, 0, FALSE, Origin, work)

\* const double a = ... (the haversine of the central angle)
HaversineA(phi1, phi2, deltaPhi, deltaLambda) ==
    squared(Sin(deltaPhi \div 2))
        + Mul(Mul(Cos(phi1), Cos(phi2)), squared(Sin(deltaLambda \div 2)))

\* const double c = 2. * atan2(sqrt(a), sqrt(1-a))
CentralAngle(a) == 2 * Atan2(Sqrt(a), Sqrt(Scale - a))

\* const double d = R * c, the contract::conditions check, and the return
DistanceChecked(d, diameterOfTheEarth) ==
    IF d <= (diameterOfTheEarth.v * PI) \div 2
    THEN Res("ok", d, FALSE, Origin, 1)
    ELSE Failed(ConditionFailure, 1)

DiameterAccepted_inclusive(R) == Ge(R, Dbl(MIN_DIAMETER_OF_THE_EARTH_IN_M))

\* KSS_EXPR(diameterOfTheEarth > MIN_DIAMETER_OF_THE_EARTH_IN_M)
DiameterAccepted(R) == Gt(R, Dbl(MIN_DIAMETER_OF_THE_EARTH_IN_M))

\* distance(p1, p2, diameterOfTheEarth)
distance(p1, p2, diameterOfTheEarth) ==
    IF ~DiameterAccepted(diameterOfTheEarth)
    THEN Failed("invalid_argument", 0)
    ELSE IF ~(isValid(p1) /\ isValid(p2)) THEN Failed(ConditionFailure, 0)
    ELSE DistanceChecked(
             diameterOfTheEarth.v
                 * CentralAngle(HaversineA(toRadians(Latitude(p1)), toRadians(Latitude(p2)),
                                           toRadians(Dbl(Latitude(p2).v - Latitude(p1).v)),
                                           toRadians(Dbl(Longitude(p2).v - Longitude(p1).v)))),
             diameterOfTheEarth)

\* return (distance(p1, p2, diameterOfTheEarth) <= epsilon)
CloseBy(r, epsilon) ==
    IF r.out # "ok" THEN r ELSE Res("ok", r.d, r.d <= epsilon, Origin, r.work)

\* areClose(p1, p2, epsilon, diameterOfTheEarth)
areClose(p1, p2, epsilon, diameterOfTheEarth) ==
    IF ~(epsilon > 0) THEN Failed("invalid_argument", 0)
    ELSE CloseBy(distance(p1, p2, diameterOfTheEarth), epsilon)

\* a fraction of a distance, counted in halves: Half(2) is 1.0
Half(n) == Dbl(n)

\* the quotient of two fixed-point values
Div(p, q) == RoundDiv(p * Scale, q)

\* a call that ended as the construction r of its result point did
AsRes(r, work) == Res(r.out, 0, FALSE, r.p, work)

\* phii = atan2(z, sqrt(x^2 + y^2)); lambdai = atan2(y, x);
\* return Point(toDegrees(phii), normalize_longitude(toDegrees(lambdai)))
PointAt(x, y, z) ==
    PointOf(toDegrees(Atan2(z, Sqrt(squared(x) + squared(y)))),
            normalize_longitude(toDegrees(Atan2(y, x))))

\* x, y and z from the weights a and b of the two points
Weighted(a, b, phi1, lambda1, phi2, lambda2) ==
    PointAt(Mul(Mul(a, Cos(phi1)), Cos(lambda1)) + Mul(Mul(b, Cos(phi2)), Cos(lambda2)),
            Mul(Mul(a, Cos(phi1)), Sin(lambda1)) + Mul(Mul(b, Cos(phi2)), Sin(lambda2)),
            Mul(a, Sin(phi1)) + Mul(b, Sin(phi2)))

\* a = sin((1-f)*delta) / sin(delta); b = sin(f*delta) / sin(delta)
Interpolate(p1, p2, f, delta) ==
    Weighted(Div(Sin(((2 - f.v) * delta) \div 2), Sin(delta)),
             Div(Sin((f.v * delta) \div 2), Sin(delta)),
             toRadians(Latitude(p1)), toRadians(Longitude(p1)),
             toRadians(Latitude(p2)), toRadians(Longitude(p2)))

\* const double d = distance(p1, p2, diameterOfTheEarth) and what follows it
InterpolateFrom(p1, p2, f, R, d) ==
    IF d.out # "ok" THEN Failed(d.out, 2)
    ELSE AsRes(Interpolate(p1, p2, f, d.d \div R.v), 2)

\* if (areClose(p1, p2, epsilon*2, diameterOfTheEarth)) return p1;
UnlessClose(p1, p2, f, R, near) ==
    IF near.out # "ok" THEN Failed(near.out, 1)
    ELSE IF near.close THEN Res("ok", 0, FALSE, p1, 1)
    ELSE InterpolateFrom(p1, p2, f, R, distance(p1, p2, R))

\* intermediatePoint(p1, p2, fractionalDistance, diameterOfTheEarth)
intermediatePoint(p1, p2, f, R) ==
    IF ~(Ge(f, Half(0)) /\ Le(f, Half(2)) /\ DiameterAccepted(R))
    THEN Failed("invalid_argument", 0)
    ELSE IF ~(isValid(p1) /\ isValid(p2)) THEN Failed(ConditionFailure, 0)
    ELSE UnlessClose(p1, p2, f, R, areClose(p1, p2, TwoEpsilon, R))

RECURSIVE PathLengthFrom(_, _, _, _, _)

PathLengthAdd_last(path, k, currentLength, work, R, d) ==
    IF d.out # "ok" THEN Failed(d.out, work + 1 + d.work)
    ELSE PathLengthFrom(path, k + 1, d.d, work + 1 + d.work, R)

\* currentLength += distance(previousPoint, p, diameterOfTheEarth)
PathLengthAdd(path, k, currentLength, work, R, d) ==
    IF d.out # "ok" THEN Failed(d.out, work + 1 + d.work)
    ELSE PathLengthFrom(path, k + 1, currentLength + d.d, work + 1 + d.work, R)

\* the loop of pathLength, at the k-th point of the path
PathLengthFrom(path, k, currentLength, work, R) ==
    IF k > Len(path) THEN Res("ok", currentLength, FALSE, Origin, work)
    ELSE PathLengthAdd(path, k, currentLength, work, R, distance(path[k - 1], path[k], R))

\* pathLength(path, diameterOfTheEarth)
pathLength(path, R) ==
    IF Len(path) = 0 THEN Res("ok", 0, FALSE, Origin, 0)
    ELSE PathLengthFrom(path, 2, 0, 1, R)

RECURSIVE PathWalk(_, _, _, _, _)

\* the three branches on lengthToIntermediatePoint, counted twice over
PathWalkAt(path, k, length, dist, work, R) ==
    IF ~length.nan /\ length.v = 0 THEN Res("ok", 0, FALSE, path[k], work)
    ELSE IF Lt(length, Dbl(0))
    THEN intermediatePoint(path[k - 1], path[k], Half(RoundDiv(length.v + 2 * dist, dist)), R)
    ELSE PathWalk(path, k + 1, length, work, R)

\* double dist = distance(previousPoint, p); lengthToIntermediatePoint -= dist
PathWalkStep(path, k, length, work, R, d) ==
    IF d.out # "ok" THEN Failed(d.out, work + 1 + d.work)
    ELSE PathWalkAt(path, k, [nan |-> length.nan, v |-> length.v - 2 * d.d], d.d,
                    work + 1 + d.work, R)

\* the loop of pathIntermediatePoint, at the k-th point of the path
PathWalk(path, k, length, work, R) ==
    IF k > Len(path) THEN Failed("runtime_error", work)
    ELSE PathWalkStep(path, k, length, work, R, distance(path[k - 1], path[k], R))

LastPoint_first(path) == path[1]

\* path.back()
LastPoint(path) == path[Len(path)]

\* lengthToIntermediatePoint = fullLengthOfPath * fractionalDistance
PathWalkStart(path, f, R, full) ==
    IF full.out # "ok" THEN Failed(full.out, 1 + full.work)
    ELSE PathWalk(path, 2, [nan |-> f.nan, v |-> full.d * f.v], 1 + full.work, R)

\* pathIntermediatePoint(path, fractionalDistance, diameterOfTheEarth)
pathIntermediatePoint(path, f, R) ==
    IF Lt(f, Half(0)) \/ Gt(f, Half(2)) THEN Failed("invalid_argument", 0)
    ELSE IF Len(path) = 0 THEN Failed("invalid_argument", 0)
    ELSE IF Len(path) = 1 THEN Res("ok", 0, FALSE, path[1], 1)
    ELSE IF f = Half(0) THEN Res("ok", 0, FALSE, path[1], 1)
    ELSE IF f = Half(2) THEN Res("ok", 0, FALSE, LastPoint(path), 2)
    ELSE PathWalkStart(path, f, R, pathLength(path, R))

(* The points, diameters, fractions and paths a caller passes in the model. *)
(* The functions keep no state: one call from the idle state shows all     *)
(* that a call can do.                                                     *)

MaxPath == 3

SphPoints ==
    { <<Deg(lng), Deg(0)>> : lng \in {-180, -90, 0, 90, 180} }
        \cup { <<Deg(0), Deg(lat)>> : lat \in {-90, 90, 91} }

PathPoints ==
    { <<Deg(lng), Deg(0)>> : lng \in {0, 90, 180} } \cup { <<Deg(0), Deg(90)>> }

Diameters ==
    {NaN, Dbl(MIN_DIAMETER_OF_THE_EARTH_IN_M), Dbl(MIN_DIAMETER_OF_THE_EARTH_IN_M + 1000)}

Fractions == {NaN} \cup { Half(n) : n \in -1..3 }

Epsilons == {0, TwoEpsilon}

Paths == UNION { [1..n -> PathPoints] : n \in 0..MaxPath }

NoSphArg == [p1 |-> Origin, p2 |-> Origin, path |-> <<>>, f |-> Half(0), R |-> Dbl(0), epsilon |-> 0]

SphIdle ==
    /\ sop = "none"
    /\ sarg = NoSphArg
    /\ sres = Failed("none", 0)

\* distance(p1, p2, R)
SphDistance ==
    /\ sop = "none"
    /\ \E p1 \in SphPoints, p2 \in SphPoints, R \in Diameters :
          /\ sarg' = [NoSphArg EXCEPT !.p1 = p1, !.p2 = p2, !.R = R]
          /\ sres' = distance(p1, p2, R)
    /\ sop' = "distance"
    /\ UNCHANGED notSph

\* areClose(p1, p2, epsilon, R)
SphAreClose ==
    /\ sop = "none"
    /\ \E p1 \in SphPoints, p2 \in SphPoints, R \in Diameters, epsilon \in Epsilons :
          /\ sarg' = [NoSphArg EXCEPT !.p1 = p1, !.p2 = p2, !.R = R, !.epsilon = epsilon]
          /\ sres' = areClose(p1, p2, epsilon, R)
    /\ sop' = "areClose"
    /\ UNCHANGED notSph

\* intermediatePoint(p1, p2, f, R)
SphIntermediatePoint ==
    /\ sop = "none"
    /\ \E p1 \in SphPoints, p2 \in SphPoints, R \in Diameters, f \in Fractions :
          /\ sarg' = [NoSphArg EXCEPT !.p1 = p1, !.p2 = p2, !.R = R, !.f = f]
          /\ sres' = intermediatePoint(p1, p2, f, R)
    /\ sop' = "intermediatePoint"
    /\ UNCHANGED notSph

\* pathLength(path, R)
SphPathLength ==
    /\ sop = "none"
    /\ \E path \in Paths, R \in Diameters :
          /\ sarg' = [NoSphArg EXCEPT !.path = path, !.R = R]
          /\ sres' = pathLength(path, R)
    /\ sop' = "pathLength"
    /\ UNCHANGED notSph

\* pathIntermediatePoint(path, f, R)
SphPathIntermediatePoint ==
    /\ sop = "none"
    /\ \E path \in Paths, R \in Diameters, f \in Fractions :
          /\ sarg' = [NoSphArg EXCEPT !.path = path, !.R = R, !.f = f]
          /\ sres' = pathIntermediatePoint(path, f, R)
    /\ sop' = "pathIntermediatePoint"
    /\ UNCHANGED notSph

SphNext ==
    \/ SphDistance
    \/ SphAreClose
    \/ SphIntermediatePoint
    \/ SphPathLength
    \/ SphPathIntermediatePoint

----------------------------------------------------------------------------
(* Intersection of two lines of the plane (line.hpp)                       *)
(*                                                                         *)
(* The lines have integer coordinates.  A computation in a floating type   *)
(* is carried out in exact fractions n/d; a computation in an integer type *)
(* divides as C++ does, towards zero.                                      *)

MaxLineX == 3
MaxLineY == 2
LineStep == 50

\* the value n/d of the type the computation is carried out in
Rat(n, d) == [n |-> n, d |-> d]

\* the greatest common divisor of two naturals, the second one positive
RECURSIVE CommonDivisor(_, _)
CommonDivisor(m, n) == IF m % n = 0 THEN n ELSE CommonDivisor(n, m % n)

\* the fraction n/d, d # 0, in lowest terms with a positive denominator
Fraction(n, d) ==
    Rat((IF d < 0 THEN -n ELSE n) \div CommonDivisor(Abs(n), Abs(d)),
        Abs(d) \div CommonDivisor(Abs(n), Abs(d)))

\* numeric_limits<Number>::epsilon(), for whole-numbered operands: no whole
\* number other than 0 is within epsilon of 0
EpsilonOf(type) == 0

\* closeTo<Number>(x, y): std::abs(x-y) <= epsilon
closeTo(type, x, y) == Abs(x - y) <= EpsilonOf(type)

Denom_mistyped(a, b, c, d) ==
    a[1] * (d[2] - c[2]) + b[1] * (c[2] - d[2]) + d[1] * (b[2] - a[2]) + c[1] * (a[2] - c[2])

\* Number denom = a[0]*(d[1]-c[1]) + b[0]*(c[1]-d[1]) + d[0]*(b[1]-a[1]) + c[0]*(a[1]-b[1])
Denom(a, b, c, d) ==
    a[1] * (d[2] - c[2]) + b[1] * (c[2] - d[2]) + d[1] * (b[2] - a[2]) + c[1] * (a[2] - b[2])

\* the dividend of s
Numer(a, b, c, d) ==
    a[1] * (d[2] - c[2]) + c[1] * (a[2] - d[2]) + d[1] * (c[2] - a[2])

\* operator/ of the integer types: the quotient is cut towards zero
TruncDiv(n, d) ==
    IF (n >= 0) = (d > 0) THEN Abs(n) \div Abs(d) ELSE -(Abs(n) \div Abs(d))

\* Number s = (...) / denom
Quotient(type, n, d) ==
    IF type = "int" THEN Rat(TruncDiv(n, d), 1)
    ELSE Fraction(n, d)

\* auto tmp = b-a; tmp *= s; return Point<Number, 2>(a + tmp)
Along(a, b, s) ==
    [k \in 1..2 |-> Rat(a[k] * s.d + (b[k] - a[k]) * s.n, s.d)]

\* what intersection gives back: how it ended and the point
LineRes(out, p) == [out |-> out, p |-> p]

NoPoint == [k \in 1..2 |-> Rat(0, 1)]

\* _private::intersectUsingArrays(a, b, c, d), computing in the given type
intersectUsingArrays(type, a, b, c, d) ==
    IF closeTo(type, Denom(a, b, c, d), 0) THEN LineRes("no_intersection", NoPoint)
    ELSE LineRes("ok", Along(a, b, Quotient(type, Numer(a, b, c, d), Denom(a, b, c, d))))

\* intersection<Result>(l1, l2), Result a floating type other than Number:
\* the four points are copied into arrays of Result
intersectionAs(l1, l2) == intersectUsingArrays("double", l1.a, l1.b, l2.a, l2.b)

\* intersection(l1, l2), computing in the lines' own Number
intersection(Number, l1, l2) == intersectUsingArrays(Number, l1.a, l1.b, l2.a, l2.b)

LinePoints ==
    { <<x * LineStep, y * LineStep>> : x \in 0..MaxLineX, y \in 0..MaxLineY }

Lines == [a : LinePoints, b : LinePoints]

NoLine == [a |-> <<0, 0>>, b |-> <<0, 0>>]

LineIdle ==
    /\ lop = "none"
    /\ larg = [l1 |-> NoLine, l2 |-> NoLine, Number |-> "int"]
    /\ lres = LineRes("none", NoPoint)

\* intersection<double>(l1, l2) on lines of int
LineIntersectionAs ==
    /\ lop = "none"
    /\ \E l1 \in Lines, l2 \in Lines :
          /\ larg' = [l1 |-> l1, l2 |-> l2, Number |-> "int"]
          /\ lres' = intersectionAs(l1, l2)
    /\ lop' = "intersection_as"
    /\ UNCHANGED notLine

\* intersection(l1, l2) on lines of int and on lines of double
LineIntersection ==
    /\ lop = "none"
    /\ \E l1 \in Lines, l2 \in Lines, Number \in {"int", "double"} :
          /\ larg' = [l1 |-> l1, l2 |-> l2, Number |-> Number]
          /\ lres' = intersection(Number, l1, l2)
    /\ lop' = "intersection"
    /\ UNCHANGED notLine

LineNext == LineIntersectionAs \/ LineIntersection

----------------------------------------------------------------------------
(* The dot product of two vectors (kss::math::la) *)

\* the width of the integer element type T, in bits
ElemBits == 3

\* size_t N
DotLen == 2

\* the largest magnitude of an element of the vectors passed
MaxElem == 3

\* the values of T: "unsigned" is an unsigned integer type, "int" a signed one
ElemRange(T) ==
    IF T = "unsigned" THEN 0..(2^ElemBits - 1)
    ELSE (-(2^(ElemBits - 1)))..(2^(ElemBits - 1) - 1)

\* v1[i] * v2[i], a product of two T stored in a T: the values the build can
\* give. Unsigned arithmetic wraps; signed overflow is undefined.
ElemProducts(T, x, y) ==
    IF x * y \in ElemRange(T) THEN {x * y}
    ELSE IF T = "unsigned" THEN {(x * y) % (2^ElemBits)}
    ELSE ElemRange(T)

\* operator*(v1, v2): the arrays a with a[i] = v1[i] * v2[i]
ElementwiseProducts(T, v1, v2) ==
    { a \in [1..DotLen -> ElemRange(T)] :
        \A k \in 1..DotLen : a[k] \in ElemProducts(T, v1[k], v2[k]) }

RECURSIVE SumFrom(_, _)
SumFrom(v, k) == IF k > DotLen THEN 0 ELSE v[k] + SumFrom(v, k + 1)

\* sum<Result>(v): Result holds every sum of N values of T
sum(v) == SumFrom(v, 1)

\* dotProduct<Result>(v1, v2): the values it can return
dotProduct(T, v1, v2) == { sum(prod) : prod \in ElementwiseProducts(T, v1, v2) }

ElemTypes == {"unsigned", "int"}

ElemValues(T) == ElemRange(T) \cap ((-MaxElem)..MaxElem)

NoVector == [k \in 1..DotLen |-> 0]

DotIdle ==
    /\ dop = "none"
    /\ darg = [T |-> "int", v1 |-> NoVector, v2 |-> NoVector]
    /\ dres = 0

\* dotProduct<Result>(v1, v2) on two vectors of T
DotProduct ==
    /\ dop = "none"
    /\ \E T \in ElemTypes :
         \E v1 \in [1..DotLen -> ElemValues(T)], v2 \in [1..DotLen -> ElemValues(T)] :
            /\ darg' = [T |-> T, v1 |-> v1, v2 |-> v2]
            /\ dres' \in dotProduct(T, v1, v2)
    /\ dop' = "dotProduct"
    /\ UNCHANGED notDot

DotNext == DotProduct

----------------------------------------------------------------------------
(* The greatest common divisor (kss::math::numerical::gcd) *)

\* the largest argument of gcd the model passes
MaxGcdArg == 12

\* !(n % UNSIGNED(2))
IsEven(n) == n % 2 = 0

\* n >>= 1
ShiftRight(n) == n \div 2

GcdAnswer_unshifted(n, shift) == n

\* UNSIGNED(u << k)
GcdAnswer(n, shift) == n * 2^shift

\* the locals of _gcd
GcdLocals(uu, vv, kk, tt, neg) == [u |-> uu, v |-> vv, k |-> kk, t |-> tt, isNegative |-> neg]

\* line 33: assert at step B2
AssertB2(s) == ~IsEven(s.u) \/ ~IsEven(s.v)

\* line 47: assert at step B3
AssertB3(s) == s.t # 0 /\ IsEven(s.t)

\* lines 36-43: t and isNegative after step B2
InitializeT(s) ==
    IF ~IsEven(s.u) THEN GcdLocals(s.u, s.v, s.k, s.v, TRUE)
    ELSE GcdLocals(s.u, s.v, s.k, s.u, FALSE)

\* line 55-56: step B5
ResetMax(s) ==
    IF ~s.isNegative THEN GcdLocals(s.t, s.v, s.k, s.t, s.isNegative)
    ELSE GcdLocals(s.u, s.t, s.k, s.t, s.isNegative)

\* lines 59-66: step B6
Subtract(s) ==
    IF s.u >= s.v THEN GcdLocals(s.u, s.v, s.k, s.u - s.v, FALSE)
    ELSE GcdLocals(s.u, s.v, s.k, s.v - s.u, TRUE)

\* an assert that fails ends the program unless the build defines NDEBUG
AfterAssert(holds, then) == IF holds \/ narg.ndebug THEN then ELSE "aborted"

NoGcdLocals == GcdLocals(0, 0, 0, 0, FALSE)

NumIdle ==
    /\ npc = "idle"
    /\ narg = [u |-> 0, v |-> 0, ndebug |-> FALSE]
    /\ nst = NoGcdLocals
    /\ nres = 0

\* gcd(u, v) is called
GcdCalled ==
    /\ npc = "call"
    /\ narg \in [u : 0..MaxGcdArg, v : 0..MaxGcdArg, ndebug : BOOLEAN]
    /\ nst = NoGcdLocals
    /\ nres = 0

\* line 22: the trivial first test, and k(0)
GcdEnter ==
    /\ npc = "call"
    /\ IF narg.u = 0 /\ narg.v = 0
       THEN npc' = "done" /\ nres' = 0 /\ UNCHANGED nst
       ELSE /\ npc' = "b1"
            /\ nst' = GcdLocals(narg.u, narg.v, 0, 0, FALSE)
            /\ UNCHANGED nres
    /\ UNCHANGED <<narg, notNum>>

\* lines 26-30: one turn of the loop of step B1
GcdB1 ==
    /\ npc = "b1"
    /\ IF IsEven(nst.u) /\ IsEven(nst.v)
       THEN /\ nst' = GcdLocals(ShiftRight(nst.u), ShiftRight(nst.v), nst.k + 1, nst.t,
                                nst.isNegative)
            /\ UNCHANGED npc
       ELSE npc' = "b2" /\ UNCHANGED nst
    /\ UNCHANGED <<narg, nres, notNum>>

\* lines 33-43: step B2
GcdB2 ==
    /\ npc = "b2"
    /\ npc' = AfterAssert(AssertB2(nst), IF ~IsEven(nst.u) THEN "b4" ELSE "b3")
    /\ nst' = IF npc' = "aborted" THEN nst ELSE InitializeT(nst)
    /\ UNCHANGED <<narg, nres, notNum>>

\* lines 47-48: step B3
GcdB3 ==
    /\ npc = "b3"
    /\ npc' = AfterAssert(AssertB3(nst), "b4")
    /\ nst' = IF npc' = "aborted" THEN nst
              ELSE GcdLocals(nst.u, nst.v, nst.k, ShiftRight(nst.t), nst.isNegative)
    /\ UNCHANGED <<narg, nres, notNum>>

\* line 52: step B4, t is even
GcdB4Even ==
    /\ npc = "b4"
    /\ IsEven(nst.t)
    /\ npc' = "b3"
    /\ UNCHANGED <<narg, nst, nres, notNum>>

\* lines 52-70: step B4 with t odd, steps B5 and B6, and the answer
GcdB4Odd ==
    /\ npc = "b4"
    /\ ~IsEven(nst.t)
    /\ nst' = Subtract(ResetMax(nst))
    /\ IF nst'.t # 0
       THEN npc' = "b3" /\ UNCHANGED nres
       ELSE npc' = "done" /\ nres' = GcdAnswer(nst'.u, nst'.k)
    /\ UNCHANGED <<narg, notNum>>

NumNext == GcdEnter \/ GcdB1 \/ GcdB2 \/ GcdB3 \/ GcdB4Even \/ GcdB4Odd

----------------------------------------------------------------------------
(* Equality of points (kss::math::geom::Point) *)

\* unsigned Dim
Dim == 2

\* the largest coordinate of the points compared
MaxPointCoord == 2

\* operator== on Number
NumberEq(x, y) == ~x.nan /\ ~y.nan /\ x.v = y.v

\* std::equal over the Dim values, as std::array's and la's comparisons use it
ValuesEqual(p, q) == \A n \in 1..Dim : NumberEq(p[n], q[n])

\* Point::operator==: the array revision compares _values, the valarray
\* revision returns true
PointEq(rev, p, q) == IF rev = "array" THEN ValuesEqual(p, q) ELSE TRUE

\* Point::operator!=: _values != p._values, or _vector != p._vector
PointNe(rev, p, q) == ~ValuesEqual(p, q)

PointRevisions == {"array", "valarray"}

PointCoords == {NaN} \cup { Dbl(n) : n \in 0..MaxPointCoord }

PtIdle ==
    /\ pop = "none"
    /\ parg = [rev |-> "array", p |-> [n \in 1..Dim |-> Dbl(0)], q |-> [n \in 1..Dim |-> Dbl(0)]]
    /\ pres = [eq |-> TRUE, ne |-> FALSE]

\* p == q and p != q on two points of one revision of point.hpp
PointCompare ==
    /\ pop = "none"
    /\ \E rev \in PointRevisions, p \in [1..Dim -> PointCoords], q \in [1..Dim -> PointCoords] :
          /\ parg' = [rev |-> rev, p |-> p, q |-> q]
          /\ pres' = [eq |-> PointEq(rev, p, q), ne |-> PointNe(rev, p, q)]
    /\ pop' = "compare"
    /\ UNCHANGED notPt

PtNext == PointCompare

----------------------------------------------------------------------------
(* la::Vector over a valarray and a slice *)

\* the width of size_t, in bits
SizeBits == 3

\* the largest valarray the model wraps
MaxVaLen == 4

\* arithmetic on size_t
SizeT(n) == n % (2^SizeBits)

\* std::slice(start, size, stride)
Slice(start, size, stride) == [start |-> start, size |-> size, stride |-> stride]

\* s.start() + ((s.size()-1) * s.stride())
LastPosition(s) == SizeT(s.start + SizeT(SizeT(s.size + 2^SizeBits - 1) * s.stride))

\* _private::isValidSlice
isValidSlice(arrayLen, s) == LastPosition(s) <= arrayLen

\* Vector::index
index(s, n) == SizeT(s.start + SizeT(n * s.stride))

\* a constructed Vector<T, N>: where its indices 0..N-1 lead
Positions(N, s) == [n \in 0..(N - 1) |-> index(s, n)]

VecRes(out, positions) == [out |-> out, positions |-> positions]

\* Vector(std::valarray<T>& v)
VectorOf(N, len) ==
    IF len < N THEN VecRes("invalid_argument", <<>>)
    ELSE VecRes("ok", Positions(N, Slice(0, N, 1)))

\* Vector(std::valarray<T>& v, const std::slice& sl)
VectorOfSlice(N, len, sl) ==
    IF sl.size # N THEN VecRes("invalid_argument", <<>>)
    ELSE IF ~isValidSlice(len, sl) THEN VecRes("invalid_argument", <<>>)
    ELSE VecRes("ok", Positions(N, sl))

\* size_t N of the vectors built
VectorSizes == 1..3

VecIdle ==
    /\ vop = "none"
    /\ varg = [len |-> 0, N |-> 1, sl |-> Slice(0, 0, 0)]
    /\ vres = VecRes("none", <<>>)

\* Vector<T, N>(v)
VecConstruct ==
    /\ vop = "none"
    /\ \E N \in VectorSizes, len \in 0..MaxVaLen :
          /\ varg' = [len |-> len, N |-> N, sl |-> Slice(0, N, 1)]
          /\ vres' = VectorOf(N, len)
    /\ vop' = "vector"
    /\ UNCHANGED notVec

\* Vector<T, N>(v, sl)
VecConstructSlice ==
    /\ vop = "none"
    /\ \E N \in VectorSizes, len \in 0..MaxVaLen, start \in 0..(2^SizeBits - 1),
          size \in 0..3, stride \in 0..(2^SizeBits - 1) :
          /\ varg' = [len |-> len, N |-> N, sl |-> Slice(start, size, stride)]
          /\ vres' = VectorOfSlice(N, len, Slice(start, size, stride))
    /\ vop' = "vector_slice"
    /\ UNCHANGED notVec

VecNext == VecConstruct \/ VecConstructSlice

----------------------------------------------------------------------------
(* The walk of pathIntermediatePoint in rounded arithmetic.                *)
(* The doubles of the walk are sums, differences and one product of the    *)
(* segment lengths; each is rounded to the nearest value of FloatBits      *)
(* significant bits, ties to even, as IEEE doubles round to 53. Lengths    *)
(* are whole numbers of a unit small enough for every value to be whole.   *)

\* the significant bits of a double of the model
FloatBits == 3

\* the fractions are FracDen-ths: 1/8 .. 7/8 are doubles of FloatBits bits
FracDen == 8

\* the most segments a path of the model has
MaxSegments == 3

\* the spacing of the doubles around a (a >= 0)
RECURSIVE UlpOf(_)
UlpOf(a) == IF a < 2^FloatBits THEN 1 ELSE 2 * UlpOf(a \div 2)

\* a, a whole number >= 0, to the nearest multiple of u, ties to the even one
NearestEven(a, u) ==
    IF 2 * (a % u) > u \/ (2 * (a % u) = u /\ (a \div u) % 2 = 1)
    THEN ((a \div u) + 1) * u
    ELSE (a \div u) * u

\* the double that an operation with the exact result x yields
Fl(x) == IF x < 0 THEN -NearestEven(-x, UlpOf(-x)) ELSE NearestEven(x, UlpOf(x))

\* pathLength: currentLength += distance(previousPoint, p), from segment k on
RECURSIVE RoundedLength(_, _, _)
RoundedLength(dists, k, currentLength) ==
    IF k > Len(dists) THEN currentLength
    ELSE RoundedLength(dists, k + 1, Fl(currentLength + dists[k]))

\* how the walk ended: at the end point of segment k ("vertex"), inside
\* segment k with the local fraction num / dist ("segment"), or at the throw
\* after the loop ("runtime_error"); length is lengthToIntermediatePoint
WalkRes(out, k, num, dist, length) ==
    [out |-> out, k |-> k, num |-> num, dist |-> dist, length |-> length]

RECURSIVE RoundedWalk(_, _, _)

\* the three branches of the loop, lengthToIntermediatePoint -= dist done
RoundedWalkAt(dists, k, length) ==
    IF length = 0 THEN WalkRes("vertex", k, 0, dists[k], length)
    ELSE IF length < 0
    THEN WalkRes("segment", k, Fl(length + dists[k]), dists[k], length)
    ELSE RoundedWalk(dists, k + 1, length)

\* the loop of pathIntermediatePoint at segment k
RoundedWalk(dists, k, length) ==
    IF k > Len(dists) THEN WalkRes("runtime_error", k, 0, 0, length)
    ELSE RoundedWalkAt(dists, k, Fl(length - dists[k]))

LengthToIntermediatePoint_whole(fullLengthOfPath, f) == Fl(fullLengthOfPath)

\* fullLengthOfPath * fractionalDistance, the fraction being f / FracDen
LengthToIntermediatePoint(fullLengthOfPath, f) == Fl((fullLengthOfPath * f) \div FracDen)

\* lines 209-229 on a path whose segments have the lengths dists
WalkOf(dists, f) ==
    RoundedWalk(dists, 1, LengthToIntermediatePoint(RoundedLength(dists, 1, 0), f))

\* the lengths distance() returns: doubles of FloatBits bits, whole multiples
\* of FracDen units, zero for coincident points
SegmentLengths ==
    { m * FracDen * 2^e : m \in 0..(2^FloatBits - 1), e \in 0..1 }

WalkIdle ==
    /\ wop = "none"
    /\ warg = [dists |-> <<>>, f |-> 0]
    /\ wres = WalkRes("none", 0, 0, 0, 0)

\* pathIntermediatePoint(path, f) past its early returns: the path has two
\* points or more and 0 < f < 1
PathWalked ==
    /\ wop = "none"
    /\ \E n \in 1..MaxSegments :
         \E dists \in [1..n -> SegmentLengths], f \in 1..(FracDen - 1) :
            /\ warg' = [dists |-> dists, f |-> f]
            /\ wres' = WalkOf(dists, f)
    /\ wop' = "walk"
    /\ UNCHANGED notWalk

WalkNext == PathWalked

----------------------------------------------------------------------------
(* Length, midpoint and distance to a point of one line (line.hpp)         *)
(*                                                                         *)
(* The coordinates are whole numbers.  A Result that is a floating type    *)
(* computes in exact fractions n/d; an integer Result divides towards zero.*)
(* A root is kept as the number under it.                                  *)

\* _private::makeValArrayFromDiffs<Result>(a, b): va[i] = a[i] - b[i]
makeValArrayFromDiffs(a, b) == [k \in 1..2 |-> a[k] - b[k]]

\* dotProduct<Result> of two differences of coordinates, which Result holds
DotOf(v1, v2) == v1[1] * v2[1] + v1[2] * v2[2]

\* the divisor of t: dotProduct<Result>(vector_t(ba), vector_t(ba))
ProjectionDenominator(l) ==
    DotOf(makeValArrayFromDiffs(l.b, l.a), makeValArrayFromDiffs(l.b, l.a))

\* the dividend of t: dotProduct<Result>(vector_t(pa), vector_t(ba))
ProjectionNumerator(l, p) ==
    DotOf(makeValArrayFromDiffs(p, l.a), makeValArrayFromDiffs(l.b, l.a))

\* what a call gives back: how it ended, the divisor it divided by, the
\* number under the root of the value returned, and the point returned
SegRes(out, denom, under, p) == [out |-> out, denom |-> denom, under |-> under, p |-> p]

\* the quotients an integer division by zero can leave when it does not trap
ZeroQuotients == {-1, 0, 1}

\* std::valarray<Result> va = pa - t * ba; return norm<Result>(vector_t(va))
DistanceWith(l, p, t) ==
    LET pa == makeValArrayFromDiffs(p, l.a)
        ba == makeValArrayFromDiffs(l.b, l.a)
        va == [k \in 1..2 |-> pa[k] * t.d - t.n * ba[k]]
    IN  SegRes("ok", ProjectionDenominator(l), Fraction(DotOf(va, va), t.d * t.d), NoPoint)

\* distance<Result>(l, p): the outcomes of the call. With a divisor of zero a
\* floating Result gives NaN and an integer Result is undefined: the division
\* traps or leaves some quotient.
distanceToLine(Result, l, p) ==
    IF ProjectionDenominator(l) # 0
    THEN {DistanceWith(l, p, Quotient(Result, ProjectionNumerator(l, p), ProjectionDenominator(l)))}
    ELSE IF Result = "double" THEN {SegRes("nan", 0, Rat(0, 1), NoPoint)}
    ELSE {SegRes("trap", 0, Rat(0, 1), NoPoint)}
            \cup { DistanceWith(l, p, Rat(t, 1)) : t \in ZeroQuotients }

\* length<Result>(l): distance<Result>(l.a(), l.b()), the norm of b - a
length(Result, l) ==
    SegRes("ok", 1, Rat(ProjectionDenominator(l), 1), NoPoint)

\* midpoint<Result>(l): m[i] = (Result(a[i]) + Result(b[i])) / Result(2)
midpoint(Result, l) ==
    SegRes("ok", 2, Rat(0, 1), [k \in 1..2 |-> Quotient(Result, l.a[k] + l.b[k], 2)])

ResultTypes == {"int", "double"}

SegIdle ==
    /\ segop = "none"
    /\ segarg = [l |-> NoLine, p |-> <<0, 0>>, Result |-> "int"]
    /\ segres = SegRes("none", 1, Rat(0, 1), NoPoint)

\* length<Result>(l)
SegLength ==
    /\ segop = "none"
    /\ \E l \in Lines, Result \in ResultTypes :
          /\ segarg' = [l |-> l, p |-> <<0, 0>>, Result |-> Result]
          /\ segres' = length(Result, l)
    /\ segop' = "length"
    /\ UNCHANGED notSeg

\* midpoint<Result>(l)
SegMidpoint ==
    /\ segop = "none"
    /\ \E l \in Lines, Result \in ResultTypes :
          /\ segarg' = [l |-> l, p |-> <<0, 0>>, Result |-> Result]
          /\ segres' = midpoint(Result, l)
    /\ segop' = "midpoint"
    /\ UNCHANGED notSeg

\* distance<Result>(l, p) and distance<Result>(p, l), which calls it
SegDistance ==
    /\ segop = "none"
    /\ \E l \in Lines, p \in LinePoints, Result \in ResultTypes :
          /\ segarg' = [l |-> l, p |-> p, Result |-> Result]
          /\ segres' \in distanceToLine(Result, l, p)
    /\ segop' = "distance"
    /\ UNCHANGED notSeg

SegNext == SegLength \/ SegMidpoint \/ SegDistance

----------------------------------------------------------------------------
(* The call as the caller makes it *)

\* the objective _minimum_value calls: fn itself, or maximum_value's negfn
Callee == IF call = "max" THEN NegFn(fn) ELSE fn

\* the fbx argument _minimum_value receives
FbxArg == IF supplied THEN F(fn, bx) ELSE FloatMax

\* what the caller receives on return
Returned(fxv) == IF call = "max" THEN -fxv ELSE fxv

\* one call of the objective
Eval(uv, iter, threw) == [u |-> uv, iter |-> iter, threw |-> threw]

AfterFnFailure_swallowed == "no_convergence"

\* where the call is after the objective raised a failure: nothing catches it
AfterFnFailure == "fn_failure"

Coords == { k * CoordStep : k \in 0..MaxCoord }
\* no tolerance, a quarter of a step of the grid, and whole steps
Tols == {0, 1} \cup { TolDen * k : k \in 1..MaxTol }

NoLocals == InitLocals(0, 0, 0, 0)

Init ==
    /\ GeoIdle
    /\ SphIdle
    /\ LineIdle
    /\ DotIdle
    /\ NumIdle
    /\ PtIdle
    /\ VecIdle
    /\ WalkIdle
    /\ SegIdle
    /\ pc = "call"
    /\ call \in {"min", "max"}
    /\ ax \in Coords /\ bx \in Coords /\ cx \in Coords
    /\ tol \in Tols
    /\ fn \in Objectives
    /\ supplied \in BOOLEAN
    /\ st = NoLocals
    /\ i = 0
    /\ evalLog = <<>>
    /\ xmin = Unwritten
    /\ result = NoResult

\* lines 177-178
SanityFail ==
    /\ pc = "call"
    /\ BadBracket(ax, bx, cx)
    /\ pc' = "invalid_argument"
    /\ UNCHANGED <<call, ax, bx, cx, tol, fn, supplied, st, i, evalLog, xmin, result, notBrent>>

\* lines 183-193 with fx = fn(x), the objective returning
EnterEvaluate ==
    /\ pc = "call"
    /\ ~BadBracket(ax, bx, cx)
    /\ NeedsEvaluation(FbxArg)
    /\ evalLog' = Append(evalLog, Eval(bx, 0, FALSE))
    /\ st' = InitLocals(ax, bx, cx, F(Callee, bx))
    /\ pc' = "loop"
    /\ UNCHANGED <<call, ax, bx, cx, tol, fn, supplied, i, xmin, result, notBrent>>

\* lines 183-189 with fn(x) raising a failure
EnterEvaluateThrows ==
    /\ pc = "call"
    /\ ~BadBracket(ax, bx, cx)
    /\ NeedsEvaluation(FbxArg)
    /\ evalLog' = Append(evalLog, Eval(bx, 0, TRUE))
    /\ pc' = AfterFnFailure
    /\ UNCHANGED <<call, ax, bx, cx, tol, fn, supplied, st, i, xmin, result, notBrent>>

\* lines 183-193 with fx = fbx
EnterKnown ==
    /\ pc = "call"
    /\ ~BadBracket(ax, bx, cx)
    /\ ~NeedsEvaluation(FbxArg)
    /\ st' = InitLocals(ax, bx, cx, FbxArg)
    /\ pc' = "loop"
    /\ UNCHANGED <<call, ax, bx, cx, tol, fn, supplied, i, evalLog, xmin, result, notBrent>>

\* lines 200-204
Converge ==
    /\ pc = "loop"
    /\ LoopContinues(i)
    /\ Converged(st, tol)
    /\ xmin' = <<st.x>>
    /\ result' = <<Returned(st.fx)>>
    /\ pc' = "returned"
    /\ UNCHANGED <<call, ax, bx, cx, tol, fn, supplied, st, i, evalLog, notBrent>>

\* lines 206-271 and the ++i of line 197, the objective returning
Iterate ==
    /\ pc = "loop"
    /\ LoopContinues(i)
    /\ ~Converged(st, tol)
    /\ LET s1 == ChooseStep(st, tol)
           u == Trial(s1, tol)
       IN  /\ evalLog' = Append(evalLog, Eval(u, i + 1, FALSE))
           /\ st' = Update(s1, u, F(Callee, u))
    /\ i' = i + 1
    /\ UNCHANGED <<pc, call, ax, bx, cx, tol, fn, supplied, xmin, result, notBrent>>

\* lines 206-237 with fn(u) raising a failure
IterateThrows ==
    /\ pc = "loop"
    /\ LoopContinues(i)
    /\ ~Converged(st, tol)
    /\ evalLog' = Append(evalLog, Eval(Trial(ChooseStep(st, tol), tol), i + 1, TRUE))
    /\ pc' = AfterFnFailure
    /\ UNCHANGED <<call, ax, bx, cx, tol, fn, supplied, st, i, xmin, result, notBrent>>

\* line 277
Exhaust ==
    /\ pc = "loop"
    /\ ~LoopContinues(i)
    /\ pc' = "no_convergence"
    /\ UNCHANGED <<call, ax, bx, cx, tol, fn, supplied, st, i, evalLog, xmin, result, notBrent>>

Next ==
    \/ SanityFail
    \/ EnterEvaluate
    \/ EnterEvaluateThrows
    \/ EnterKnown
    \/ Converge
    \/ Iterate
    \/ IterateThrows
    \/ Exhaust

Spec == Init /\ [][Next]_vars

----------------------------------------------------------------------------
(* The geospatial point on its own: no call of the minimizer is under way *)

BrentIdle ==
    /\ pc = "idle"
    /\ call = "min"
    /\ ax = 0 /\ bx = 0 /\ cx = 0
    /\ tol = 0
    /\ fn = CHOOSE f \in Objectives : f.kind = "flat"
    /\ supplied = FALSE
    /\ st = NoLocals
    /\ i = 0
    /\ evalLog = <<>>
    /\ xmin = Unwritten
    /\ result = NoResult

GeoInit == BrentIdle /\ GeoIdle /\ SphIdle /\ LineIdle /\ DotIdle /\ NumIdle /\ PtIdle /\ VecIdle /\ WalkIdle /\ SegIdle

GeoSpec == GeoInit /\ [][GeoNext]_vars

----------------------------------------------------------------------------
(* The great-circle functions on their own *)

SphInit == BrentIdle /\ GeoIdle /\ SphIdle /\ LineIdle /\ DotIdle /\ NumIdle /\ PtIdle /\ VecIdle /\ WalkIdle /\ SegIdle

SphSpec == SphInit /\ [][SphNext]_vars

----------------------------------------------------------------------------
(* The intersection of lines on its own *)

LineInit == BrentIdle /\ GeoIdle /\ SphIdle /\ LineIdle /\ DotIdle /\ NumIdle /\ PtIdle /\ VecIdle /\ WalkIdle /\ SegIdle

LineSpec == LineInit /\ [][LineNext]_vars

----------------------------------------------------------------------------
(* The dot product on its own *)

DotInit == BrentIdle /\ GeoIdle /\ SphIdle /\ LineIdle /\ DotIdle /\ NumIdle /\ PtIdle /\ VecIdle /\ WalkIdle /\ SegIdle

DotSpec == DotInit /\ [][DotNext]_vars

----------------------------------------------------------------------------
(* gcd on its own *)

NumInit == BrentIdle /\ GeoIdle /\ SphIdle /\ LineIdle /\ DotIdle /\ GcdCalled /\ PtIdle /\ VecIdle /\ WalkIdle /\ SegIdle

\* the call runs on: a step that can be taken is taken
NumSpec == NumInit /\ [][NumNext]_vars /\ WF_vars(NumNext)

----------------------------------------------------------------------------
(* The comparison of points on its own *)

PtInit == BrentIdle /\ GeoIdle /\ SphIdle /\ LineIdle /\ DotIdle /\ NumIdle /\ PtIdle /\ VecIdle /\ WalkIdle /\ SegIdle

PtSpec == PtInit /\ [][PtNext]_vars

----------------------------------------------------------------------------
(* The construction of vectors on its own *)

VecInit == BrentIdle /\ GeoIdle /\ SphIdle /\ LineIdle /\ DotIdle /\ NumIdle /\ PtIdle /\ VecIdle /\ WalkIdle /\ SegIdle

VecSpec == VecInit /\ [][VecNext]_vars

----------------------------------------------------------------------------
(* The walk in rounded arithmetic on its own *)

WalkInit ==
    BrentIdle /\ GeoIdle /\ SphIdle /\ LineIdle /\ DotIdle /\ NumIdle /\ PtIdle /\ VecIdle /\ WalkIdle /\ SegIdle

WalkSpec == WalkInit /\ [][WalkNext]_vars

----------------------------------------------------------------------------
(* The functions of one line on their own *)

SegInit == BrentIdle /\ GeoIdle /\ SphIdle /\ LineIdle /\ DotIdle /\ NumIdle /\ PtIdle /\ VecIdle /\ WalkIdle /\ SegIdle

SegSpec == SegInit /\ [][SegNext]_vars

----------------------------------------------------------------------------
(* Claims about minimum_value / maximum_value *)

Ended == {"returned", "invalid_argument", "no_convergence", "fn_failure"}

\* the calls of the objective made before the loop, and those made in it
StartEvals == { k \in 1..Len(evalLog) : evalLog[k].iter = 0 }
TrialEvals == { k \in 1..Len(evalLog) : evalLog[k].iter > 0 }

\* the objective decreases strictly up to f.m and increases strictly after it
Unimodal(f) == f.kind \in {"vee", "quad"} /\ ~f.neg

\* the minimizer on [lo, hi] of a unimodal objective
TrueMinimizer(f, lo, hi) == IF f.m < lo THEN lo ELSE IF f.m > hi THEN hi ELSE f.m

ValidBracket ==
    /\ ax < bx /\ bx < cx
    /\ F(fn, bx) <= F(fn, ax)
    /\ F(fn, bx) <= F(fn, cx)

\* C1: a call with ax >= bx or bx >= cx ends with invalid_argument, the
\* objective never called and xmin not written.
C1_InvalidArgumentFirst ==
    (pc \in {"loop"} \cup Ended /\ (ax >= bx \/ bx >= cx))
        => /\ pc = "invalid_argument"
           /\ evalLog = <<>>
           /\ xmin = Unwritten
           /\ result = NoResult

C1_Witness == pc = "invalid_argument" /\ ax = bx /\ bx < cx

\* C2: a call with a valid bracket ends (every step of a call that has not
\* ended is followed by another, and each step raises a measure that is at
\* most 102); the loop runs at most 100 iterations with one trial evaluation
\* each; it returns only at the start of an iteration whose convergence test
\* holds, and ends with no_convergence, nothing returned, when that has not
\* happened in 100 iterations.
C2_Bounded ==
    /\ i <= 100
    /\ pc \in {"loop", "returned", "no_convergence"} => Cardinality(TrialEvals) = i
    /\ pc = "fn_failure" => Cardinality(TrialEvals) <= i + 1
    /\ pc = "returned" =>
          /\ i < 100
          /\ TolDen * Abs(2 * st.x - (st.a + st.b)) <= 4 * tol - TolDen * (st.b - st.a)
    /\ pc = "no_convergence" => i = 100 /\ xmin = Unwritten /\ result = NoResult
    /\ (pc = "loop" /\ i = 100) => xmin = Unwritten

\* grows with every step of a call and is at most 102
C2_Measure == IF pc = "call" THEN 0 ELSE IF pc = "loop" THEN 1 + i ELSE 102

C2_Terminates ==
    /\ []C2_Bounded
    /\ [][C2_Measure' > C2_Measure]_vars
    /\ [](pc \in Ended \/ ENABLED Next)

C2_Witness == pc = "no_convergence" /\ Cardinality(TrialEvals) = 100 /\ ax < bx /\ bx < cx

\* C3 as claimed: for a valid bracket and a unimodal objective, the x that
\* minimize returns is within tol of the true minimizer on [ax, cx].
C3_WithinTolerance ==
    (pc = "returned" /\ call = "min" /\ ValidBracket /\ Unimodal(fn))
        => TolDen * Abs(xmin[1] - TrueMinimizer(fn, ax, cx)) <= tol

\* C3 as amended: with a tolerance of at least one grid step, the x that
\* minimize returns is within 2*tol of the true minimizer on [ax, cx].
C3_WithinTwiceTolerance ==
    (pc = "returned" /\ call = "min" /\ ValidBracket /\ Unimodal(fn) /\ tol >= TolDen)
        => TolDen * Abs(xmin[1] - TrueMinimizer(fn, ax, cx)) <= 2 * tol

C3_Witness ==
    /\ pc = "returned" /\ call = "min" /\ ValidBracket /\ Unimodal(fn) /\ tol >= TolDen
    /\ i >= 2
    /\ TolDen * Abs(xmin[1] - TrueMinimizer(fn, ax, cx)) > tol

\* C4: fx is never greater than a value the objective has returned in the
\* call, and minimize returns the objective's value at the returned x, which
\* is at most f(bx).
C4_BestSoFar ==
    /\ pc \in {"loop", "returned", "no_convergence"} =>
          \A k \in 1..Len(evalLog) : st.fx <= F(Callee, evalLog[k].u)
    /\ (pc = "returned" /\ call = "min") =>
          /\ result[1] = F(fn, xmin[1])
          /\ result[1] <= F(fn, bx)

C4_Witness == pc = "returned" /\ call = "min" /\ i >= 3 /\ result[1] < F(fn, bx)

\* C5 as claimed: when the caller supplies f(bx) the objective is not called
\* before the loop, whatever the supplied value; when it supplies none the
\* objective is called exactly once before the loop, at bx.
C5_SuppliedSkipsEvaluation ==
    (pc \in {"loop", "returned", "no_convergence"}) =>
        /\ supplied => StartEvals = {}
        /\ ~supplied => StartEvals = {1} /\ evalLog[1].u = bx

\* C5 as amended: the objective is not called before the loop when the
\* caller supplies a value other than numeric_limits<FLOAT>::max(); it is
\* called exactly once before the loop, at bx, when no value is supplied or
\* the supplied value is numeric_limits<FLOAT>::max().
C5_SuppliedSkipsUnlessMax ==
    (pc \in {"loop", "returned", "no_convergence"}) =>
        /\ (supplied /\ F(fn, bx) # FloatMax) =>
              /\ StartEvals = {}
              /\ evalLog # <<>> => evalLog[1].iter = 1
        /\ (~supplied \/ F(fn, bx) = FloatMax) =>
              StartEvals = {1} /\ evalLog[1].u = bx

C5_Witness ==
    /\ supplied /\ pc = "loop" /\ i = 1
    /\ Len(evalLog) = 1 /\ evalLog[1].iter = 1

\* C6: maximum_value ends as minimum_value on the negated objective does,
\* with the same location and the negated value, whether or not the caller
\* supplies f(bx).
C6_MaximizeIsNegatedMinimize ==
    (call = "max" /\ pc \in {"returned", "invalid_argument", "no_convergence"}) =>
        /\ pc = MinimumValue(ax, bx, cx, NegFn(fn), tol, FloatMax).out
        /\ pc = "returned" =>
              /\ xmin[1] = MinimumValue(ax, bx, cx, NegFn(fn), tol, FloatMax).xmin
              /\ result[1] = -MinimumValue(ax, bx, cx, NegFn(fn), tol, FloatMax).value

\* C7: once the objective raises a failure the call ends with that failure:
\* no later call of the objective, no no_convergence, xmin not written.
C7_FailurePropagates ==
    /\ \A k \in 1..Len(evalLog) : evalLog[k].threw => k = Len(evalLog)
    /\ (evalLog # <<>> /\ evalLog[Len(evalLog)].threw) =>
          /\ pc = "fn_failure"
          /\ xmin = Unwritten
          /\ result = NoResult

C7_Witness ==
    /\ pc = "fn_failure" /\ Len(evalLog) >= 3
    /\ evalLog[Len(evalLog)].threw

----------------------------------------------------------------------------
(* Claims about geos::Point *)

\* -90 <= x <= 90 and -180 <= x <= 180 for a double counted in half degrees
LatitudeInRange(x) == ~x.nan /\ -2 * 90 <= x.v /\ x.v <= 2 * 90
LongitudeInRange(x) == ~x.nan /\ -2 * 180 <= x.v /\ x.v <= 2 * 180

\* C8: after any sequence of public operations, writes through operator[]
\* and values() included, -90 <= latitude <= 90 and -180 <= longitude <= 180.
C8_AlwaysInRange == LatitudeInRange(gp[2]) /\ LongitudeInRange(gp[1])

\* C9: latitude(x) is accepted iff -90 <= x <= 90 and longitude(x) iff
\* -180 <= x <= 180; an accepted call stores x, a rejected one ends with
\* out_of_range and leaves both coordinates as they were.
C9_SetterContract ==
    [][ /\ gop' = "latitude" =>
              /\ (gout' = "ok") <=> LatitudeInRange(garg'[1])
              /\ gout' = "ok" => gp' = <<gp[1], garg'[1]>>
              /\ gout' # "ok" => gout' = "out_of_range" /\ gp' = gp
        /\ gop' = "longitude" =>
              /\ (gout' = "ok") <=> LongitudeInRange(garg'[1])
              /\ gout' = "ok" => gp' = <<garg'[1], gp[2]>>
              /\ gout' # "ok" => gout' = "out_of_range" /\ gp' = gp ]_vars

\* C10: a point constructed from string(p) or from p.gis(), p valid, has the
\* latitude and the longitude of p.
C10_TextRoundTrip ==
    gop \in {"from_string", "from_gis"} => gout = "ok" /\ gp = gsrc

C10_Witness ==
    /\ gop = "from_gis" /\ gout = "ok"
    /\ gsrc[1].v < 0 /\ gsrc[2].v % 2 = 1 /\ gsrc[1] # gsrc[2]
    /\ gp = gsrc

\* white space, an optional sign, digits, an optional fraction, nothing else
IsNumberText(s) ==
    \E k \in 1..Len(s), e \in 1..Len(s) :
        /\ k <= e
        /\ \A j \in 1..(k - 1) : IsSpace(s[j]) \/ (j = k - 1 /\ s[j] \in {"-", "+"})
        /\ \A j \in k..e : IsDigit(s[j])
        /\ e = Len(s) \/ (s[e + 1] = "." /\ \A j \in (e + 2)..Len(s) : IsDigit(s[j]))

\* where a text of one of the two formats separates its numbers, 0 if nowhere
SeparatorOf(s) ==
    LET gis == StartsWith(s, GisPrefix)
        first == IF gis THEN Len(GisPrefix) + 1 ELSE 2
        seps == { c \in (first + 1)..(Len(s) - 2) :
                    /\ s[c] = (IF gis THEN " " ELSE ",")
                    /\ IsNumberText(SubSeq(s, first, c - 1))
                    /\ IsNumberText(SubSeq(s, c + 1, Len(s) - 1)) }
    IN  IF Len(s) < 5 \/ s[Len(s)] # ")" \/ (~gis /\ s[1] # "(") \/ seps = {} THEN 0
        ELSE CHOOSE c \in seps : TRUE

\* '(' number ',' number ')' or 'POINT(' number ' ' number ')'
WellFormedText(s) == SeparatorOf(s) # 0

\* <<longitude, latitude>> written by a well-formed text
TextPoint(s) ==
    LET gis == StartsWith(s, GisPrefix)
        c == SeparatorOf(s)
        n1 == StoD(SubSeq(s, IF gis THEN Len(GisPrefix) + 1 ELSE 2, c - 1)).val
        n2 == StoD(SubSeq(s, c + 1, Len(s) - 1)).val
    IN  IF gis THEN <<n1, n2>> ELSE <<n2, n1>>

\* C11: Point(text) ends with invalid_argument for every text that is not
\* exactly '(' number ',' number ')' or 'POINT(' number ' ' number ')', the
\* empty text and numbers followed by other characters included, and with
\* out_of_range for a well-formed text with a value outside the bounds.
C11_TextErrors ==
    gop = "text" =>
        IF ~WellFormedText(garg) THEN gout = "invalid_argument"
        ELSE IF LatitudeInRange(TextPoint(garg)[2]) /\ LongitudeInRange(TextPoint(garg)[1])
        THEN gout = "ok" /\ gp = TextPoint(garg)
        ELSE gout = "out_of_range"

----------------------------------------------------------------------------
(* Claims about the great-circle functions *)

ValidPoints == isValid(sarg.p1) /\ isValid(sarg.p2)

\* diameter > 6,370,000
AcceptedDiameter == ~sarg.R.nan /\ sarg.R.v > 6370000

\* the fraction f/2 is in [0,1]
InUnitInterval(f) == ~f.nan /\ 0 <= f.v /\ f.v <= 2

\* C12: for valid points and an accepted diameter, distance returns, and
\* what it returns is at most diameter*PI/2 (a quarter turn is two eighths).
C12_DistanceBounded ==
    (sop = "distance" /\ ValidPoints /\ AcceptedDiameter)
        => sres.out = "ok" /\ sres.d <= 2 * sarg.R.v

\* C13: distance, areClose and intermediatePoint end with invalid_argument,
\* nothing computed, when the diameter is not greater than 6,370,000,
\* whatever the points.
C13_DiameterChecked ==
    (sop \in {"distance", "areClose", "intermediatePoint"} /\ ~AcceptedDiameter)
        => sres.out = "invalid_argument" /\ sres.work = 0

C13_Witness ==
    /\ sop = "intermediatePoint"
    /\ sarg.R = Dbl(6370000) /\ ~ValidPoints /\ InUnitInterval(sarg.f)
    /\ sres.out = "invalid_argument"

\* C14: for valid points, longitude 180 and -180 included, the intermediate
\* point at fraction 0 is p1 and at fraction 1 is p2, and for p1 = p2 it is
\* p1 at every fraction in [0,1].
C14_IntermediateEnds ==
    (sop = "intermediatePoint" /\ ValidPoints /\ AcceptedDiameter) =>
        /\ sarg.f = Half(0) => sres.out = "ok" /\ sres.p = sarg.p1
        /\ sarg.f = Half(2) => sres.out = "ok" /\ sres.p = sarg.p2
        /\ (sarg.p1 = sarg.p2 /\ InUnitInterval(sarg.f))
              => sres.out = "ok" /\ sres.p = sarg.p1

\* C15: on a path of at least one point, fraction 0 gives the first point and
\* fraction 1 the last one, no distance computed; a path of one point gives
\* that point at every fraction in [0,1].
C15_PathEnds ==
    (sop = "pathIntermediatePoint" /\ Len(sarg.path) >= 1) =>
        /\ sarg.f = Half(0) => sres.out = "ok" /\ sres.p = sarg.path[1] /\ sres.work <= 2
        /\ sarg.f = Half(2)
              => sres.out = "ok" /\ sres.p = sarg.path[Len(sarg.path)] /\ sres.work <= 2
        /\ (Len(sarg.path) = 1 /\ InUnitInterval(sarg.f))
              => sres.out = "ok" /\ sres.p = sarg.path[1]

C15_Witness ==
    /\ sop = "pathIntermediatePoint" /\ sarg.f = Half(2)
    /\ Len(sarg.path) = 3 /\ sarg.path[3] # sarg.path[1] /\ sarg.path[3] # sarg.path[2]
    /\ sres.out = "ok" /\ sres.p = sarg.path[3]

\* C16: pathIntermediatePoint ends with invalid_argument, no point read and
\* no distance computed, for every path when the fraction is outside [0,1]
\* and for every fraction when the path is empty.
C16_PathArgumentErrors ==
    (sop = "pathIntermediatePoint" /\ (~InUnitInterval(sarg.f) \/ Len(sarg.path) = 0))
        => sres.out = "invalid_argument" /\ sres.work = 0

\* the sum of distance(path[j], path[j+1]) for j = 1..k-1, in order
RECURSIVE SumOfHops(_, _, _)
SumOfHops(path, k, R) ==
    IF k <= 1 THEN 0 ELSE SumOfHops(path, k - 1, R) + distance(path[k - 1], path[k], R).d

\* C17: pathLength is 0 for a path of no or one point; for a longer path it
\* is the sum of the distances of the consecutive pairs, so it is the length
\* of the path without its last point plus the distance of the last pair.
C17_PathLengthIsSum ==
    sop = "pathLength" =>
        /\ Len(sarg.path) <= 1 => sres.out = "ok" /\ sres.d = 0
        /\ (Len(sarg.path) >= 2 /\ sres.out = "ok") =>
              /\ sres.d = SumOfHops(sarg.path, Len(sarg.path), sarg.R)
              /\ sres.d = pathLength(SubSeq(sarg.path, 1, Len(sarg.path) - 1), sarg.R).d
                            + distance(sarg.path[Len(sarg.path) - 1],
                                       sarg.path[Len(sarg.path)], sarg.R).d

C17_Witness ==
    /\ sop = "pathLength" /\ Len(sarg.path) = 3 /\ sres.out = "ok"
    /\ distance(sarg.path[1], sarg.path[2], sarg.R).d > 0
    /\ sres.d = 2 * distance(sarg.path[1], sarg.path[2], sarg.R).d

----------------------------------------------------------------------------
(* Claims about intersection *)

\* the directions b - a of the two lines are parallel, or one of them is zero
Parallel(l1, l2) ==
    (l1.b[1] - l1.a[1]) * (l2.b[2] - l2.a[2]) = (l1.b[2] - l1.a[2]) * (l2.b[1] - l2.a[1])

\* the point p, of fractions, is on the infinite line through l.a and l.b
OnLine(p, l) ==
    (p[1].n - l.a[1] * p[1].d) * (l.b[2] - l.a[2]) * p[2].d
        = (p[2].n - l.a[2] * p[2].d) * (l.b[1] - l.a[1]) * p[1].d

C19_OnBothLines ==
    (lop # "none" /\ ~Parallel(larg.l1, larg.l2)) =>
        /\ lres.out = "ok"
        /\ OnLine(lres.p, larg.l1)
        /\ OnLine(lres.p, larg.l2)
        /\ (/\ larg.l1 = [a |-> <<100, 0>>, b |-> <<100, 100>>]
            /\ larg.l2 = [a |-> <<50, 50>>, b |-> <<150, 50>>])
              => /\ lres.p[1].n = 100 * lres.p[1].d
                 /\ lres.p[2].n = 50 * lres.p[2].d

\* the sum over i of Result(v1[i]) * Result(v2[i])
RECURSIVE SumOfProducts(_, _, _)
SumOfProducts(v1, v2, k) ==
    IF k > DotLen THEN 0 ELSE v1[k] * v2[k] + SumOfProducts(v1, v2, k + 1)

\* C20: dotProduct<Result>(v1, v2) is the sum over i of
\* Result(v1[i]) * Result(v2[i]): a product that leaves the range of the
\* element type does not change the result.
C20_DotProductInResult ==
    dop = "dotProduct" => dres = SumOfProducts(darg.v1, darg.v2, 1)

----------------------------------------------------------------------------
(* Claims about gcd *)

\* C21: gcd(u, v) terminates for every pair of arguments, a single zero
\* included, and the assertions of steps B2 and B3 hold whenever they are
\* evaluated.
C21_GcdTerminates ==
    /\ [](npc = "b2" => AssertB2(nst))
    /\ [](npc = "b3" => AssertB3(nst))
    /\ <>(npc = "done")

Divides(d, n) == \E q \in 0..n : q * d = n

CommonDivisors(a, b) == { d \in 1..MaxGcdArg + 1 : Divides(d, a) /\ Divides(d, b) }

\* C22: for u > 0 and v > 0 gcd(u, v) divides both and is divisible by every
\* common divisor, which makes it the same for (u, v) and (v, u);
\* gcd(0, 0) is 0.
C22_GcdIsGreatest ==
    npc = "done" =>
        /\ (narg.u > 0 /\ narg.v > 0) =>
              /\ nres \in CommonDivisors(narg.u, narg.v)
              /\ \A d \in CommonDivisors(narg.u, narg.v) : Divides(d, nres)
        /\ (narg.u = 0 /\ narg.v = 0) => nres = 0

C22_Witness ==
    npc = "done" /\ narg.u = 12 /\ narg.v = 8 /\ nres = 4 /\ nst.k = 2

----------------------------------------------------------------------------
(* Claims about geom::Point *)

\* C23: p == q is true exactly when every coordinate of p equals the
\* corresponding coordinate of q, and p != q is the negation of p == q.
C23_ElementwiseEquality ==
    pop = "compare" =>
        /\ pres.eq = (\A n \in 1..Dim : NumberEq(parg.p[n], parg.q[n]))
        /\ pres.ne = ~pres.eq

----------------------------------------------------------------------------
(* Claims about la::Vector *)

\* the last position a slice selects, as a number
LastSelected(s) == s.start + (s.size - 1) * s.stride

\* C24: a Vector constructed without an exception maps each index 0..N-1 to
\* a position below v.size(); the construction ends with invalid_argument for
\* every slice whose size is not N or whose last position is outside v.
C24_IndicesInside ==
    vop # "none" =>
        /\ vres.out = "ok" =>
              \A n \in 0..(varg.N - 1) : vres.positions[n] < varg.len
        /\ (varg.sl.size # varg.N \/ LastSelected(varg.sl) >= varg.len) =>
              vres.out = "invalid_argument"

----------------------------------------------------------------------------
(* Claims about the walk of pathIntermediatePoint *)

\* C25: for a path of two points or more, a fraction strictly between 0 and
\* 1 and an accepted diameter, the walk returns from inside its loop: the
\* failure after the loop is never reached.
C25_WalkResolves ==
    wop = "walk" => wres.out # "runtime_error"

\* the length of the first k segments as pathLength adds it up
CumulativeLength(k) == RoundedLength(SubSeq(warg.dists, 1, k), 1, 0)

\* total * f
TargetLength == LengthToIntermediatePoint(RoundedLength(warg.dists, 1, 0), warg.f)

\* C26 as stated: the segment handed to intermediatePoint has a length other
\* than zero, the local fraction is in [0,1], the segment is the first at
\* which the cumulative length exceeds total*f, and a cumulative length equal
\* to total*f at a vertex returns that vertex.
C26_SegmentChosen ==
    wop = "walk" =>
        /\ wres.out = "segment" =>
              /\ wres.dist # 0
              /\ 0 <= wres.num /\ wres.num <= wres.dist
              /\ CumulativeLength(wres.k) > TargetLength
              /\ \A j \in 1..(wres.k - 1) : CumulativeLength(j) < TargetLength
        /\ \A j \in 1..Len(warg.dists) :
              (/\ CumulativeLength(j) = TargetLength
               /\ \A h \in 1..(j - 1) : CumulativeLength(h) < TargetLength)
                  => (wres.out = "vertex" /\ wres.k = j)

\* the sum of the first k lengths, as a number
RECURSIVE SumOfLengths(_, _)
SumOfLengths(dists, k) == IF k = 0 THEN 0 ELSE dists[k] + SumOfLengths(dists, k - 1)

\* total * f, as a number
ExactTarget == (SumOfLengths(warg.dists, Len(warg.dists)) * warg.f) \div FracDen

\* no sum, product or difference the walk can form is rounded
Unrounded ==
    /\ (SumOfLengths(warg.dists, Len(warg.dists)) * warg.f) % FracDen = 0
    /\ Fl(ExactTarget) = ExactTarget
    /\ \A j \in 1..Len(warg.dists) :
          /\ Fl(SumOfLengths(warg.dists, j)) = SumOfLengths(warg.dists, j)
          /\ Fl(ExactTarget - SumOfLengths(warg.dists, j))
                = ExactTarget - SumOfLengths(warg.dists, j)

\* C26, amended: the segment handed to intermediatePoint has a length other
\* than zero and the local fraction is in [0,1]; when nothing in the walk is
\* rounded, the segment is the first at which the cumulative length exceeds
\* total*f, and a cumulative length equal to total*f at a vertex returns
\* that vertex.
C26_SegmentChosenUnrounded ==
    wop = "walk" =>
        /\ wres.out = "segment" =>
              /\ wres.dist # 0
              /\ 0 <= wres.num /\ wres.num <= wres.dist
        /\ Unrounded =>
              /\ wres.out = "segment" =>
                    /\ SumOfLengths(warg.dists, wres.k) > ExactTarget
                    /\ \A j \in 1..(wres.k - 1) : SumOfLengths(warg.dists, j) < ExactTarget
                    /\ wres.num = ExactTarget - SumOfLengths(warg.dists, wres.k - 1)
              /\ \A j \in 1..Len(warg.dists) :
                    (/\ SumOfLengths(warg.dists, j) = ExactTarget
                     /\ \A h \in 1..(j - 1) : SumOfLengths(warg.dists, h) < ExactTarget)
                        => (wres.out = "vertex" /\ wres.k = j)

C26_Witness ==
    /\ wop = "walk" /\ Unrounded
    /\ wres.out = "segment" /\ wres.k = 2 /\ Len(warg.dists) = 3
    /\ wres.num > 0 /\ wres.num < wres.dist

----------------------------------------------------------------------------
(* Claims about the bracket and the ranking of _minimum_value *)

\* the trial point of the evaluation just made
LastTrial == evalLog'[Len(evalLog')].u

\* the bracket at the start of an iteration
BracketOrdered == ax <= st.a /\ st.a <= st.x /\ st.x <= st.b /\ st.b <= cx

\* an iteration never lowers a and never raises b
BracketNarrows == st'.a >= st.a /\ st'.b <= st.b

\* an iteration makes b - a strictly smaller
BracketShrinksStrictly == st'.b - st'.a < st.b - st.a

\* the trial point lies in the bracket the iteration began with
TrialInside == st.a <= LastTrial /\ LastTrial <= st.b

\* a tolerance that the grid resolves next to x: x + tol1 is not x
Resolved(tol1) == TolStep(tol1, FALSE) # 0

C28_Ranked == pc = "loop" => (st.fx <= st.fw /\ st.fw <= st.fv)

\* C28 as amended: x is the best of the three, and w ranks before v once v
\* is no longer the point x itself.
C28_RankedOnceDistinct ==
    pc = "loop" =>
        /\ st.fx <= st.fw
        /\ st.fx <= st.fv
        /\ st.v # st.x => st.fw <= st.fv

\* an iteration that began with distinct x, w and v, ranked
C28_Witness ==
    /\ pc = "loop" /\ i >= 3
    /\ st.v # st.x /\ st.v # st.w /\ st.w # st.x
    /\ st.fx < st.fw /\ st.fw < st.fv

----------------------------------------------------------------------------
(* Claims about the diameter in the path functions *)

\* a diameter the functions accept
GoodDiameter == Dbl(MIN_DIAMETER_OF_THE_EARTH_IN_M + 1000)

\* the call made would return a result were its diameter an accepted one
WouldReturn ==
    \/ sop = "pathLength" /\ pathLength(sarg.path, GoodDiameter).out = "ok"
    \/ /\ sop = "pathIntermediatePoint"
       /\ pathIntermediatePoint(sarg.path, sarg.f, GoodDiameter).out = "ok"

\* C29: pathLength and pathIntermediatePoint reject a diameter that is not
\* greater than 6,370,000 with invalid_argument whenever they would otherwise
\* return a result, empty and single-point paths and the fractions 0 and 1
\* included.
C29_DiameterRejected ==
    (WouldReturn /\ ~DiameterAccepted(sarg.R)) => sres.out = "invalid_argument"

----------------------------------------------------------------------------
(* Claims about the distance from a line to a point *)

\* the line of the call is degenerate: a == b
Degenerate == segarg.l.a = segarg.l.b

\* C30: distance(line, point) never divides by zero, degenerate lines a == b
\* included; for those length(line) is 0 and midpoint(line) is a.
C30_NoDivisionByZero ==
    /\ segop = "distance" => segres.denom # 0
    /\ (segop = "length" /\ Degenerate) => segres.under = Rat(0, 1)
    /\ (segop = "midpoint" /\ Degenerate) =>
          segres.p = [k \in 1..2 |-> Rat(segarg.l.a[k], 1)]

====
